---- MODULE Spec2Model ----
(***************************************************************************)
(* The kilo text editor of src/kilo.c as a state machine.                  *)
(*                                                                         *)
(* The global struct E is the record variable E; the function-local        *)
(* statics of editorProcessKeypress and editorFindCallback are variables   *)
(* of their own.  A state is taken where the program waits in              *)
(* editorReadKey: in the main loop (pc = "edit") or in the loop of         *)
(* editorPrompt (pc = "find", pc = "saveas"), each time right after        *)
(* editorRefreshScreen.  Bytes and keys are the integers of the C source;  *)
(* a C string is the sequence of its bytes, without the terminator.        *)
(***************************************************************************)
EXTENDS Integers, Sequences, FiniteSets, TLC

VARIABLES
    pc,            \* where the process is: "start", "init", "open" (main before the
                   \* loop), "edit", "find", "saveas" (waiting for a key),
                   \* "exited" (exit()), "crashed" (killed by a signal),
                   \* "undefined" (running on after undefined behaviour);
                   \* "refresh", "refreshed" (ScrollSpec: before and after
                   \* the one editorRefreshScreen)
    termios,       \* the terminal's attributes: "orig" or "raw"
    atexit,        \* disableRawMode is registered with atexit()
    tcfail,        \* the tcsetattr() of disableRawMode has failed
    E,             \* struct editorConfig E
    quit_times,    \* static of editorProcessKeypress
    quit_presses,  \* history: Ctrl-Q keys the dispatcher read in a row
    nkeys,         \* history: keys read so far
    buf,           \* editorPrompt's buf
    saved,         \* editorFind's saved_cx, saved_cy, saved_coloff, saved_rowoff
    F,             \* statics of editorFindCallback
    clean_text,    \* history: the serialized document at startup, at the load
                   \* or at the last successful save
    hist,          \* history: what the one-function specifications have fed
                   \* the program (the file's bytes, the keys typed)
    readkey,       \* what the last editorReadKey returned
    now            \* time(NULL), in seconds

vars == <<pc, termios, atexit, tcfail, E, quit_times, quit_presses, nkeys,
          buf, saved, F, clean_text, hist, readkey, now>>

(***************************************************************************)
(* Bounds of the model.                                                    *)
(***************************************************************************)
MaxKeys == 5        \* keys the keyboard sends in a run
ScrollMaxRows == 2  \* rows of a document editorScroll is tried on
ScrollMaxLen == 1   \* bytes of such a row
ScrollMaxOff == 2   \* the row and column offset before the refresh
EditMaxOps == 4     \* operations applied in a run of EditSpec
LoadMaxLen == 4     \* bytes of a file editorOpen is tried on
RowMaxLen == 8      \* bytes of a row the index conversions are tried on
MsgMaxTime == 7      \* seconds the clock of MsgSpec runs
SyntaxMaxLen == 5    \* bytes of a render editorUpdateSyntax is tried on

(***************************************************************************)
(* Program constants.                                                      *)
(***************************************************************************)
KILO_TAB_STOP == 8
KILO_QUIT_TIMES == 3

CTRL_KEY(k) == k % 32        \* (k) & 0x1f

BACKSPACE == 127
ARROW_LEFT == 1000
ARROW_RIGHT == 1001
ARROW_UP == 1002
ARROW_DOWN == 1003
DEL_KEY == 1004
HOME_KEY == 1005
END_KEY == 1006
PAGE_UP == 1007
PAGE_DOWN == 1008

HL_NORMAL == 0
HL_NUMBER == 1
HL_MATCH == 2

ESC == 27           \* '\x1b'
ENTER == 13         \* '\r'
NEWLINE == 10       \* '\n'
CR == 13            \* '\r'
TAB == 9            \* '\t'
NUL == 0            \* '\0'
DOT == 46           \* '.'

(***************************************************************************)
(* Syntax highlighting.                                                    *)
(***************************************************************************)
isspace(c) == c \in {9, 10, 11, 12, 13, 32}
isdigit(c) == c >= 48 /\ c <= 57
iscntrl(c) == (c >= 0 /\ c < 32) \/ c = 127

\* the bytes of ",.()+-/*=~%<>[];"
SeparatorChars == {44, 46, 40, 41, 43, 45, 47, 42, 61, 126, 37, 60, 62, 91, 93, 59}

is_separator(c) == isspace(c) \/ c = NUL \/ c \in SeparatorChars

\* The loop of editorUpdateSyntax from index i (0-based) on: hl is the array
\* so far (all HL_NORMAL after the memset), prev_sep the loop's flag.
RECURSIVE SyntaxLoop(_, _, _, _)
\* the loop without "|| (c == '.' && prev_hl == HL_NUMBER)"
SyntaxLoopNoDecimals(render, i, hl, prev_sep) ==
    IF i >= Len(render) THEN hl
    ELSE LET c == render[i + 1]
             prev_hl == IF i > 0 THEN hl[i] ELSE HL_NORMAL
         IN  IF isdigit(c) /\ (prev_sep \/ prev_hl = HL_NUMBER)
             THEN SyntaxLoop(render, i + 1, [hl EXCEPT ![i + 1] = HL_NUMBER], FALSE)
             ELSE SyntaxLoop(render, i + 1, hl, is_separator(c))

SyntaxLoop(render, i, hl, prev_sep) ==
    IF i >= Len(render) THEN hl
    ELSE LET c == render[i + 1]
             prev_hl == IF i > 0 THEN hl[i] ELSE HL_NORMAL
         IN  IF (isdigit(c) /\ (prev_sep \/ prev_hl = HL_NUMBER))
                \/ (c = DOT /\ prev_hl = HL_NUMBER)
             THEN SyntaxLoop(render, i + 1, [hl EXCEPT ![i + 1] = HL_NUMBER], FALSE)
             ELSE SyntaxLoop(render, i + 1, hl, is_separator(c))

editorUpdateSyntax(render) ==
    SyntaxLoop(render, 0, [i \in 1..Len(render) |-> HL_NORMAL], TRUE)

(***************************************************************************)
(* Row operations.  A row is [chars, render, hl]; size and rsize are the   *)
(* lengths of chars and render.                                            *)
(***************************************************************************)
\* chars[j] of the C array, whose byte at index size is the terminator
CharAt(chars, j) == IF j < Len(chars) THEN chars[j + 1] ELSE NUL

RECURSIVE CxToRxLoop(_, _, _, _)
CxToRxLoop(chars, cx, j, rx) ==
    IF j >= cx THEN rx
    ELSE LET t == IF CharAt(chars, j) = TAB
                  THEN rx + (KILO_TAB_STOP - 1) - (rx % KILO_TAB_STOP)
                  ELSE rx
         IN  CxToRxLoop(chars, cx, j + 1, t + 1)

editorRowCxToRx(chars, cx) == CxToRxLoop(chars, cx, 0, 0)

RECURSIVE RxToCxLoop(_, _, _, _)
RxToCxLoop(chars, rx, cx, cur_rx) ==
    IF cx >= Len(chars) THEN cx
    ELSE LET t == IF chars[cx + 1] = TAB
                  THEN cur_rx + (KILO_TAB_STOP - 1) - (cur_rx % KILO_TAB_STOP)
                  ELSE cur_rx
         IN  IF t + 1 > rx THEN cx ELSE RxToCxLoop(chars, rx, cx + 1, t + 1)

\* editorRowRxToCx returning at "cur_rx >= rx"
editorRowRxToCxAtLeast(chars, rx) == RxToCxLoop(chars, rx - 1, 0, 0)

editorRowRxToCx(chars, rx) == RxToCxLoop(chars, rx, 0, 0)

\* The tab count of editorUpdateRow: its counting loop has an empty body
\* ("for (...);"), so the test runs once, on chars[size].
TabsCounted(chars) == IF CharAt(chars, Len(chars)) = TAB THEN 1 ELSE 0

\* bytes malloc'ed for render
RenderCapacity(chars) == Len(chars) + TabsCounted(chars) * (KILO_TAB_STOP - 1) + 1

RECURSIVE PadToTabStop(_)
PadToTabStop(out) ==
    IF Len(out) % KILO_TAB_STOP # 0 THEN PadToTabStop(Append(out, 32)) ELSE out

RECURSIVE RenderLoop(_, _, _)
RenderLoop(chars, j, out) ==
    IF j >= Len(chars) THEN out
    ELSE IF chars[j + 1] = TAB
         THEN RenderLoop(chars, j + 1, PadToTabStop(Append(out, 32)))
         ELSE RenderLoop(chars, j + 1, Append(out, chars[j + 1]))

RenderOf(chars) == RenderLoop(chars, 0, << >>)

\* editorUpdateRow writes rsize + 1 bytes into the RenderCapacity it got
RenderOverflows(chars) == Len(RenderOf(chars)) + 1 > RenderCapacity(chars)

editorUpdateRow(chars) ==
    LET render == RenderOf(chars)
    IN  [chars |-> chars, render |-> render, hl |-> editorUpdateSyntax(render)]

InsertAt(s, at, x) == SubSeq(s, 1, at) \o <<x>> \o SubSeq(s, at + 1, Len(s))
RemoveAt(s, at) == SubSeq(s, 1, at) \o SubSeq(s, at + 2, Len(s))

\* e is a value of struct editorConfig; at is 0-based as in the source
editorInsertRow(e, at, s) ==
    IF at < 0 \/ at > Len(e.row) THEN e
    ELSE [e EXCEPT !.row = InsertAt(e.row, at, editorUpdateRow(s)),
                   !.dirty = e.dirty + 1]

\* The guard lets at = numrows through: the row one past the array is then
\* freed and numrows decremented (see editorDelRowUB).
editorDelRow(e, at) ==
    IF at < 0 \/ at > Len(e.row) THEN e
    ELSE [e EXCEPT !.row = IF at < Len(e.row) THEN RemoveAt(e.row, at)
                            ELSE SubSeq(e.row, 1, Len(e.row) - 1),    \* E.numrows--
                   !.dirty = e.dirty - 1]

editorDelRowUB(e, at) == at = Len(e.row)

\* row at (0-based) of e with chars replaced and no editorUpdateRow call
WithCharsStale(e, at, chars) ==
    [e EXCEPT !.row[at + 1].chars = chars, !.dirty = e.dirty + 1]

\* row at (0-based) of e with chars replaced and render, hl rebuilt
WithChars(e, at, chars) ==
    [e EXCEPT !.row[at + 1] = editorUpdateRow(chars), !.dirty = e.dirty + 1]

editorRowInsertChar(e, y, at, c) ==
    LET chars == e.row[y + 1].chars
        pos == IF at < 0 \/ at > Len(chars) THEN Len(chars) ELSE at
    IN  WithChars(e, y, InsertAt(chars, pos, c % 256))    \* the int c stored in a char

\* editorRowAppendString without its "E.dirty++"
editorRowAppendStringClean(e, y, s) ==
    [WithChars(e, y, e.row[y + 1].chars \o s) EXCEPT !.dirty = e.dirty]

editorRowAppendString(e, y, s) ==
    WithChars(e, y, e.row[y + 1].chars \o s)

\* editorRowDelChar moving the bytes from at + 2 down: the byte after at goes
editorRowDelCharNext(e, y, at) ==
    LET chars == e.row[y + 1].chars
    IN  IF at < 0 \/ at >= Len(chars) THEN e
        ELSE WithChars(e, y, RemoveAt(chars, at + 1))

editorRowDelChar(e, y, at) ==
    LET chars == e.row[y + 1].chars
    IN  IF at < 0 \/ at >= Len(chars) THEN e
        ELSE WithChars(e, y, RemoveAt(chars, at))

(***************************************************************************)
(* Editor operations.  An operation that reads or writes a row outside     *)
(* E.row[0 .. numrows-1] has undefined behaviour; the predicate next to it *)
(* (...UB) says when, and the operation itself is then not used.           *)
(***************************************************************************)
editorInsertCharUB(e) == e.cy > Len(e.row)

editorInsertChar(e, c) ==
    LET e1 == IF e.cy = Len(e.row) THEN editorInsertRow(e, Len(e.row), << >>) ELSE e
    IN  [editorRowInsertChar(e1, e.cy, e.cx, c) EXCEPT !.cx = e.cx + 1]

editorInsertNewlineUB(e) ==
    e.cx # 0 /\ (e.cy >= Len(e.row) \/ e.cx < 0 \/ e.cx > Len(e.row[e.cy + 1].chars))

\* editorInsertNewline without "E.cy++"
editorInsertNewlineStays(e) ==
    LET e1 == IF e.cx = 0
              THEN editorInsertRow(e, e.cy, << >>)
              ELSE LET chars == e.row[e.cy + 1].chars
                       e2 == editorInsertRow(e, e.cy + 1, SubSeq(chars, e.cx + 1, Len(chars)))
                   IN  [e2 EXCEPT !.row[e.cy + 1] = editorUpdateRow(SubSeq(chars, 1, e.cx))]
    IN  [e1 EXCEPT !.cx = 0]

\* editorInsertNewline without the truncation of the row it splits
editorInsertNewlineKeepsTail(e) ==
    LET e1 == IF e.cx = 0
              THEN editorInsertRow(e, e.cy, << >>)
              ELSE LET chars == e.row[e.cy + 1].chars
                   IN  editorInsertRow(e, e.cy + 1, SubSeq(chars, e.cx + 1, Len(chars)))
    IN  [e1 EXCEPT !.cy = e.cy + 1, !.cx = 0]

editorInsertNewline(e) ==
    LET e1 == IF e.cx = 0
              THEN editorInsertRow(e, e.cy, << >>)
              ELSE LET chars == e.row[e.cy + 1].chars
                       e2 == editorInsertRow(e, e.cy + 1, SubSeq(chars, e.cx + 1, Len(chars)))
                   IN  [e2 EXCEPT !.row[e.cy + 1] = editorUpdateRow(SubSeq(chars, 1, e.cx))]
    IN  [e1 EXCEPT !.cy = e.cy + 1, !.cx = 0]

editorDelCharUB(e) ==
    /\ e.cy # Len(e.row)
    /\ ~(e.cx = 0 /\ e.cy = 0)
    /\ e.cy > Len(e.row) \/ (e.cx <= 0 /\ e.cy = 0)

\* editorDelChar without "E.cx = E.row[E.cy - 1].size" in the merge
editorDelCharKeepsColumn(e) ==
    IF e.cy = Len(e.row) THEN e
    ELSE IF e.cx = 0 /\ e.cy = 0 THEN e
    ELSE IF e.cx > 0
         THEN [editorRowDelChar(e, e.cy, e.cx - 1) EXCEPT !.cx = e.cx - 1]
         ELSE LET e2 == editorRowAppendString(e, e.cy - 1, e.row[e.cy + 1].chars)
                  e3 == editorDelRow(e2, e.cy)
              IN  [e3 EXCEPT !.cy = e.cy - 1]

\* editorDelChar with "E.dirty++" ahead of its two early returns
editorDelCharCounts(e) ==
    IF e.cy = Len(e.row) THEN [e EXCEPT !.dirty = e.dirty + 1]
    ELSE IF e.cx = 0 /\ e.cy = 0 THEN [e EXCEPT !.dirty = e.dirty + 1]
    ELSE IF e.cx > 0
         THEN [editorRowDelChar(e, e.cy, e.cx - 1) EXCEPT !.cx = e.cx - 1]
         ELSE LET e1 == [e EXCEPT !.cx = Len(e.row[e.cy].chars)]
                  e2 == editorRowAppendString(e1, e.cy - 1, e.row[e.cy + 1].chars)
                  e3 == editorDelRow(e2, e.cy)
              IN  [e3 EXCEPT !.cy = e.cy - 1]

\* editorDelChar deleting the row that it has emptied
editorDelCharDropsEmpty(e) ==
    IF e.cy = Len(e.row) THEN e
    ELSE IF e.cx = 0 /\ e.cy = 0 THEN e
    ELSE IF e.cx > 0
         THEN LET e2 == [editorRowDelChar(e, e.cy, e.cx - 1) EXCEPT !.cx = e.cx - 1]
              IN  IF Len(e2.row[e.cy + 1].chars) = 0 THEN editorDelRow(e2, e.cy) ELSE e2
         ELSE LET e1 == [e EXCEPT !.cx = Len(e.row[e.cy].chars)]
                  e2 == editorRowAppendString(e1, e.cy - 1, e.row[e.cy + 1].chars)
                  e3 == editorDelRow(e2, e.cy)
              IN  [e3 EXCEPT !.cy = e.cy - 1]

editorDelChar(e) ==
    IF e.cy = Len(e.row) THEN e
    ELSE IF e.cx = 0 /\ e.cy = 0 THEN e
    ELSE IF e.cx > 0
         THEN [editorRowDelChar(e, e.cy, e.cx - 1) EXCEPT !.cx = e.cx - 1]
         ELSE LET e1 == [e EXCEPT !.cx = Len(e.row[e.cy].chars)]
                  e2 == editorRowAppendString(e1, e.cy - 1, e.row[e.cy + 1].chars)
                  e3 == editorDelRow(e2, e.cy)
              IN  [e3 EXCEPT !.cy = e.cy - 1]

(***************************************************************************)
(* File i/o.                                                               *)
(***************************************************************************)
RECURSIVE RowsToStringLoop(_, _, _)
RowsToStringLoop(row, j, out) ==
    IF j >= Len(row) THEN out
    ELSE RowsToStringLoop(row, j + 1, out \o row[j + 1].chars \o <<NEWLINE>>)

\* the buffer of editorRowsToString; *buflen is its length
editorRowsToString(row) == RowsToStringLoop(row, 0, << >>)

RECURSIVE TotLenLoop(_, _, _)
\* TotLenLoop adding only the sizes
TotLenLoopSizes(row, j, totlen) ==
    IF j >= Len(row) THEN totlen
    ELSE TotLenLoop(row, j + 1, totlen + Len(row[j + 1].chars))

TotLenLoop(row, j, totlen) ==
    IF j >= Len(row) THEN totlen
    ELSE TotLenLoop(row, j + 1, totlen + Len(row[j + 1].chars) + 1)

\* *buflen of editorRowsToString
editorRowsToStringLen(row) == TotLenLoop(row, 0, 0)

\* getline(): the bytes up to and with the next '\n', or to the end of file
RECURSIVE GetLine(_, _)
GetLine(bytes, n) ==
    IF n >= Len(bytes) THEN n
    ELSE IF bytes[n + 1] = NEWLINE THEN n + 1 ELSE GetLine(bytes, n + 1)

\* the inner loop of editorOpen: drop trailing '\n' and '\r'
RECURSIVE StripEol(_)
StripEol(line) ==
    IF Len(line) > 0 /\ (line[Len(line)] = NEWLINE \/ line[Len(line)] = CR)
    THEN StripEol(SubSeq(line, 1, Len(line) - 1))
    ELSE line

RECURSIVE OpenLoop(_, _)
OpenLoop(e, bytes) ==
    IF Len(bytes) = 0 THEN e
    ELSE LET linelen == GetLine(bytes, 0)
         IN  OpenLoop(editorInsertRow(e, Len(e.row), StripEol(SubSeq(bytes, 1, linelen))),
                      SubSeq(bytes, linelen + 1, Len(bytes)))

\* editorOpen once fopen() has succeeded
editorOpen(e, filename, bytes) ==
    [OpenLoop([e EXCEPT !.filename = filename], bytes) EXCEPT !.dirty = 0]

Msg(fmt, n, s) == [fmt |-> fmt, n |-> n, s |-> s]

editorSetStatusMessage(e, msg) ==
    [e EXCEPT !.statusmsg = msg, !.statusmsg_time = now]

\* the file name NULL: no file name is the empty string, which neither
\* main (fopen("") fails) nor editorPrompt (never returns an empty buf) sets
NULL == << >>

\* editorSaveWrite without "E.dirty = 0"
editorSaveWriteKeepsDirty(e, io) ==
    IF io = "ok"
    THEN editorSetStatusMessage(e,
                                Msg("%d bytes written to disk", editorRowsToStringLen(e.row), << >>))
    ELSE editorSetStatusMessage(e, Msg("Can't save! I/O error: %s", 0, << >>))

\* editorSaveWrite with "E.dirty = 0" ahead of the system calls
editorSaveWriteCleansFirst(e, io) ==
    IF io = "ok"
    THEN editorSetStatusMessage([e EXCEPT !.dirty = 0],
                                Msg("%d bytes written to disk", editorRowsToStringLen(e.row), << >>))
    ELSE editorSetStatusMessage([e EXCEPT !.dirty = 0],
                                Msg("Can't save! I/O error: %s", 0, << >>))

\* editorSave from the serialization on; io is what open, ftruncate and
\* write do: "ok", or the call that fails
editorSaveWrite(e, io) ==
    IF io = "ok"
    THEN editorSetStatusMessage([e EXCEPT !.dirty = 0],
                                Msg("%d bytes written to disk", editorRowsToStringLen(e.row), << >>))
    ELSE editorSetStatusMessage(e, Msg("Can't save! I/O error: %s", 0, << >>))

(***************************************************************************)
(* Find.                                                                   *)
(***************************************************************************)
\* strstr(): the index of the first occurrence of needle in hay, or -1
\* strstr taken to return hay where it returns NULL
StrStrOrStart(hay, needle) ==
    LET hits == {i \in 0..(Len(hay) - Len(needle)) :
                    SubSeq(hay, i + 1, i + Len(needle)) = needle}
    IN  IF hits = {} THEN 0 ELSE CHOOSE i \in hits : \A k \in hits : i <= k

StrStr(hay, needle) ==
    LET hits == {i \in 0..(Len(hay) - Len(needle)) :
                    SubSeq(hay, i + 1, i + Len(needle)) = needle}
    IN  IF hits = {} THEN -1 ELSE CHOOSE i \in hits : \A k \in hits : i <= k

\* memset(&hl[at - 1], v, n)
MemSetBefore(hl, at, v, n) == [i \in 1..Len(hl) |-> IF i >= at /\ i < at + n THEN v ELSE hl[i]]

\* memset(&hl[at], v, n)
MemSet(hl, at, v, n) == [i \in 1..Len(hl) |-> IF i > at /\ i <= at + n THEN v ELSE hl[i]]

\* The for loop of editorFindCallback from iteration i on: the 0-based
\* index of the first row matched, or -1.
RECURSIVE FindLoop(_, _, _, _, _)
\* the loop with "current++" for "current += direction"
FindLoopForward(row, query, current, direction, i) ==
    IF i >= Len(row) THEN -1
    ELSE LET c1 == current + 1
             cur == IF c1 = -1 THEN Len(row) - 1
                    ELSE IF c1 = Len(row) THEN 0 ELSE c1
         IN  IF StrStr(row[cur + 1].render, query) # -1 THEN cur
             ELSE FindLoop(row, query, cur, direction, i + 1)

FindLoop(row, query, current, direction, i) ==
    IF i >= Len(row) THEN -1
    ELSE LET c1 == current + direction
             cur == IF c1 = -1 THEN Len(row) - 1
                    ELSE IF c1 = Len(row) THEN 0 ELSE c1
         IN  IF StrStr(row[cur + 1].render, query) # -1 THEN cur
             ELSE FindLoop(row, query, cur, direction, i + 1)

NoSavedHl == [null |-> TRUE, hl |-> << >>]

\* RestoreHl leaving the highlight as it is
RestoreHlSkipped(e, f) == e

\* the head of editorFindCallback: "if (saved_hl) { memcpy(...); ... }"
RestoreHl(e, f) ==
    IF f.saved_hl.null THEN e
    ELSE [e EXCEPT !.row[f.saved_hl_line + 1].hl = f.saved_hl.hl]

\* editorFindCallback on [E, F]: F holds its statics
\* the callback with a fresh search that starts on the line of the cursor
editorFindCallbackFromCursor(ef, query, key) ==
    LET e0 == ef.E
        f0 == ef.F
        e1 == RestoreHl(e0, f0)
        f1 == [f0 EXCEPT !.saved_hl = NoSavedHl]
    IN  IF key = ENTER \/ key = ESC
        THEN [E |-> e1, F |-> [f1 EXCEPT !.last_match = -1, !.direction = 1]]
        ELSE LET f2 == IF key = ARROW_RIGHT \/ key = ARROW_DOWN
                       THEN [f1 EXCEPT !.direction = 1]
                       ELSE IF key = ARROW_LEFT \/ key = ARROW_UP
                       THEN [f1 EXCEPT !.direction = -1]
                       ELSE [f1 EXCEPT !.last_match = e0.cy - 1, !.direction = 1]
                 f3 == IF f2.last_match = -1 THEN [f2 EXCEPT !.direction = 1] ELSE f2
                 current == FindLoop(e1.row, query, f3.last_match, f3.direction, 0)
             IN  IF current = -1 THEN [E |-> e1, F |-> f3]
                 ELSE LET r == e1.row[current + 1]
                          at == StrStr(r.render, query)
                      IN  [E |-> [e1 EXCEPT !.cy = current,
                                            !.cx = editorRowRxToCx(r.chars, at),
                                            !.rowoff = Len(e1.row),
                                            !.row[current + 1].hl =
                                                MemSet(r.hl, at, HL_MATCH, Len(query))],
                           F |-> [f3 EXCEPT !.last_match = current,
                                            !.saved_hl_line = current,
                                            !.saved_hl = [null |-> FALSE, hl |-> r.hl]]]

\* the callback returning on Enter and Escape with no reset of its statics
editorFindCallbackNoReset(ef, query, key) ==
    LET e0 == ef.E
        f0 == ef.F
        e1 == RestoreHl(e0, f0)
        f1 == [f0 EXCEPT !.saved_hl = NoSavedHl]
    IN  IF key = ENTER \/ key = ESC
        THEN [E |-> e1, F |-> f1]
        ELSE LET f2 == IF key = ARROW_RIGHT \/ key = ARROW_DOWN
                       THEN [f1 EXCEPT !.direction = 1]
                       ELSE IF key = ARROW_LEFT \/ key = ARROW_UP
                       THEN [f1 EXCEPT !.direction = -1]
                       ELSE [f1 EXCEPT !.last_match = -1, !.direction = 1]
                 f3 == IF f2.last_match = -1 THEN [f2 EXCEPT !.direction = 1] ELSE f2
                 current == FindLoop(e1.row, query, f3.last_match, f3.direction, 0)
             IN  IF current = -1 THEN [E |-> e1, F |-> f3]
                 ELSE LET r == e1.row[current + 1]
                          at == StrStr(r.render, query)
                      IN  [E |-> [e1 EXCEPT !.cy = current,
                                            !.cx = editorRowRxToCx(r.chars, at),
                                            !.rowoff = Len(e1.row),
                                            !.row[current + 1].hl =
                                                MemSet(r.hl, at, HL_MATCH, Len(query))],
                           F |-> [f3 EXCEPT !.last_match = current,
                                            !.saved_hl_line = current,
                                            !.saved_hl = [null |-> FALSE, hl |-> r.hl]]]

editorFindCallback(ef, query, key) ==
    LET e0 == ef.E
        f0 == ef.F
        e1 == RestoreHl(e0, f0)
        f1 == [f0 EXCEPT !.saved_hl = NoSavedHl]
    IN  IF key = ENTER \/ key = ESC
        THEN [E |-> e1, F |-> [f1 EXCEPT !.last_match = -1, !.direction = 1]]
        ELSE LET f2 == IF key = ARROW_RIGHT \/ key = ARROW_DOWN
                       THEN [f1 EXCEPT !.direction = 1]
                       ELSE IF key = ARROW_LEFT \/ key = ARROW_UP
                       THEN [f1 EXCEPT !.direction = -1]
                       ELSE [f1 EXCEPT !.last_match = -1, !.direction = 1]
                 f3 == IF f2.last_match = -1 THEN [f2 EXCEPT !.direction = 1] ELSE f2
                 current == FindLoop(e1.row, query, f3.last_match, f3.direction, 0)
             IN  IF current = -1 THEN [E |-> e1, F |-> f3]
                 ELSE LET r == e1.row[current + 1]
                          at == StrStr(r.render, query)
                      IN  [E |-> [e1 EXCEPT !.cy = current,
                                            !.cx = editorRowRxToCx(r.chars, at),
                                            !.rowoff = Len(e1.row),
                                            !.row[current + 1].hl =
                                                MemSet(r.hl, at, HL_MATCH, Len(query))],
                           F |-> [f3 EXCEPT !.last_match = current,
                                            !.saved_hl_line = current,
                                            !.saved_hl = [null |-> FALSE, hl |-> r.hl]]]

(***************************************************************************)
(* Output.                                                                 *)
(***************************************************************************)
\* editorScroll scrolling horizontally by E.cx instead of E.rx
editorScrollByCx(e) ==
    LET rx == IF e.cy < Len(e.row)
              THEN editorRowCxToRx(e.row[e.cy + 1].chars, e.cx) ELSE 0
        ro1 == IF e.cy < e.rowoff THEN e.cy ELSE e.rowoff
        ro2 == IF e.cy >= ro1 + e.screenrows THEN e.cy - e.screenrows + 1 ELSE ro1
        co1 == IF e.cx < e.coloff THEN e.cx ELSE e.coloff
        co2 == IF e.cx >= co1 + e.screencols THEN e.cx - e.screencols + 1 ELSE co1
    IN  [e EXCEPT !.rx = rx, !.rowoff = ro2, !.coloff = co2]

editorScroll(e) ==
    LET rx == IF e.cy < Len(e.row)
              THEN editorRowCxToRx(e.row[e.cy + 1].chars, e.cx) ELSE 0
        ro1 == IF e.cy < e.rowoff THEN e.cy ELSE e.rowoff
        ro2 == IF e.cy >= ro1 + e.screenrows THEN e.cy - e.screenrows + 1 ELSE ro1
        co1 == IF rx < e.coloff THEN rx ELSE e.coloff
        co2 == IF rx >= co1 + e.screencols THEN rx - e.screencols + 1 ELSE co1
    IN  [e EXCEPT !.rx = rx, !.rowoff = ro2, !.coloff = co2]

\* what editorRefreshScreen changes of E (the frame it writes is no state)
editorRefreshScreen(e) == editorScroll(e)

\* editorDrawMessageBar with "<= 5"
editorDrawMessageBarUpTo5(e, t) ==
    LET len == IF e.statusmsg.fmt = "" THEN 0 ELSE Len(e.statusmsg.fmt)
        msglen == IF len > e.screencols THEN e.screencols ELSE len
    IN  msglen # 0 /\ t - e.statusmsg_time <= 5

\* editorDrawMessageBar at the time t: whether it appends the first msglen
\* bytes of the message to the screen; strlen(E.statusmsg) is taken to be
\* the length of the format, which is 0 exactly when the message is empty
editorDrawMessageBar(e, t) ==
    LET len == IF e.statusmsg.fmt = "" THEN 0 ELSE Len(e.statusmsg.fmt)
        msglen == IF len > e.screencols THEN e.screencols ELSE len
    IN  msglen # 0 /\ t - e.statusmsg_time < 5

(***************************************************************************)
(* Input.                                                                  *)
(***************************************************************************)
\* E.row[y].size; g is what the read yields when row y is outside the array
RowSize(e, y, g) == IF y >= 0 /\ y < Len(e.row) THEN Len(e.row[y + 1].chars) ELSE g

editorMoveCursorUB(e, key) ==
    key = ARROW_LEFT /\ e.cx = 0 /\ e.cy > 0 /\ e.cy - 1 >= Len(e.row)

editorMoveCursor(e, key, g) ==
    LET hasrow == e.cy < Len(e.row)
        size == RowSize(e, e.cy, 0)
        e1 == CASE key = ARROW_LEFT ->
                     IF e.cx # 0 THEN [e EXCEPT !.cx = e.cx - 1]
                     ELSE IF e.cy > 0
                          THEN [e EXCEPT !.cy = e.cy - 1, !.cx = RowSize(e, e.cy - 1, g)]
                          ELSE e
                [] key = ARROW_RIGHT ->
                     IF hasrow /\ e.cx < size THEN [e EXCEPT !.cx = e.cx + 1]
                     ELSE IF hasrow /\ e.cx = size
                          THEN [e EXCEPT !.cy = e.cy + 1, !.cx = 0]
                          ELSE e
                [] key = ARROW_UP ->
                     IF e.cy # 0 THEN [e EXCEPT !.cy = e.cy - 1] ELSE e
                [] key = ARROW_DOWN ->
                     IF e.cy < Len(e.row) THEN [e EXCEPT !.cy = e.cy + 1] ELSE e
                [] OTHER -> e
        rowlen == RowSize(e1, e1.cy, 0)
    IN  IF e1.cx > rowlen THEN [e1 EXCEPT !.cx = rowlen] ELSE e1

RECURSIVE MoveTimes(_, _, _)
MoveTimes(e, key, times) ==
    IF times <= 0 THEN e ELSE MoveTimes(editorMoveCursor(e, key, 0), key, times - 1)

\* the PAGE_UP / PAGE_DOWN case of editorProcessKeypress
PageMove(e, c) ==
    LET y == e.rowoff + e.screenrows - 1
        e1 == IF c = PAGE_UP THEN [e EXCEPT !.cy = e.rowoff]
              ELSE [e EXCEPT !.cy = IF y < Len(e.row) THEN Len(e.row) ELSE y]
    IN  MoveTimes(e1, IF c = PAGE_UP THEN ARROW_UP ELSE ARROW_DOWN, e.screenrows)

(***************************************************************************)
(* The environment: what the terminal, the file system and the keyboard    *)
(* give the program.                                                       *)
(***************************************************************************)
\* the window size getWindowSize reports: 3 text rows of 2 columns
WinSizes == {[rows |-> 5, cols |-> 2]}

\* argv[1] and the file's bytes: "a\nb\n", "ab\r\n" and "\t\n"
FileName == <<102>>
Files == {<<97, NEWLINE, 98, NEWLINE>>, <<97, 98, 13, NEWLINE>>, <<TAB, NEWLINE>>}

\* bytes the keyboard sends that the dispatcher inserts as text
TypedBytes == {97, 98}

\* values a read outside the row array yields
Garbage == {-1, 0, 1}

\* what open, ftruncate and write do in editorSave: all succeed ("ok"), or
\* the named call fails, or write returns less than len ("short")
SaveOutcomes == {"ok", "open", "ftruncate", "write", "short"}

\* the outcomes of a key of which wr says whether it gets as far as open()
SaveTries(wr) == IF wr THEN SaveOutcomes ELSE {"none"}

Keys == {ENTER, CTRL_KEY(113), CTRL_KEY(115), CTRL_KEY(102), CTRL_KEY(104),
         CTRL_KEY(108), ESC, BACKSPACE, DEL_KEY, HOME_KEY, END_KEY, PAGE_UP,
         PAGE_DOWN, ARROW_UP, ARROW_DOWN, ARROW_LEFT, ARROW_RIGHT} \cup TypedBytes

(***************************************************************************)
(* Initial state: the process at the start of main, the terminal in its    *)
(* original mode, E zero-initialized.                                      *)
(***************************************************************************)
NoMsg == Msg("", 0, << >>)

ZeroE == [cx |-> 0, cy |-> 0, rx |-> 0, rowoff |-> 0, coloff |-> 0,
          screenrows |-> 0, screencols |-> 0, row |-> << >>, dirty |-> 0,
          filename |-> NULL, statusmsg |-> NoMsg, statusmsg_time |-> 0]

NoSaved == [cx |-> 0, cy |-> 0, coloff |-> 0, rowoff |-> 0]

FindStatics == [last_match |-> -1, direction |-> 1, saved_hl_line |-> 0,
                saved_hl |-> NoSavedHl]

Init ==
    /\ pc = "start"
    /\ termios = "orig"
    /\ atexit = FALSE
    /\ tcfail = FALSE
    /\ E = ZeroE
    /\ quit_times = KILO_QUIT_TIMES
    /\ quit_presses = 0
    /\ nkeys = 0
    /\ buf = << >>
    /\ saved = NoSaved
    /\ F = FindStatics
    /\ clean_text = << >>
    /\ hist = << >>
    /\ readkey = 0
    /\ now = 0

(***************************************************************************)
(* Termination.  Once the process is gone its memory is gone: E and the    *)
(* statics are left at their zero values.                                  *)
(***************************************************************************)
ProcessGone ==
    /\ E' = ZeroE
    /\ quit_times' = KILO_QUIT_TIMES
    /\ buf' = << >>
    /\ saved' = NoSaved
    /\ F' = FindStatics
    /\ clean_text' = << >>
    /\ nkeys' = 0
    /\ UNCHANGED <<hist, readkey, now>>

\* disableRawMode, run by exit() when registered: ok is whether its
\* tcsetattr succeeds; when it fails die() is entered from the handler and
\* the terminal keeps its attributes.
disableRawMode(registered, ok) ==
    /\ termios' = IF registered /\ ok THEN "orig" ELSE termios
    /\ tcfail' = (registered /\ ~ok)

\* exit(), and die(), which ends in exit(1)
die(registered) ==
    /\ pc' = "exited"
    /\ \E ok \in (IF registered THEN BOOLEAN ELSE {TRUE}) : disableRawMode(registered, ok)
    /\ ProcessGone

\* the process is killed by a signal (SIGSEGV, SIGABRT): no handler runs
Crash ==
    /\ pc' = "crashed"
    /\ ProcessGone
    /\ UNCHANGED <<termios, atexit, tcfail>>

\* outcomes of an access outside the row array: with no row array
\* (E.row == NULL) the access faults
UBOutcomes(e) == IF Len(e.row) = 0 THEN {"crash"} ELSE {"crash", "runs_on"}

\* outcomes of editorUpdateRow writing past the end of render
OverflowOutcomes == {"crash", "runs_on"}

(***************************************************************************)
(* main before the loop.                                                   *)
(***************************************************************************)
enableRawMode ==
    /\ pc = "start"
    /\ \E tcget \in BOOLEAN, tcset \in BOOLEAN :
          IF ~tcget
          THEN /\ die(FALSE)
               /\ UNCHANGED atexit
          ELSE /\ atexit' = TRUE
               /\ IF ~tcset
                  THEN die(TRUE)
                  ELSE /\ termios' = "raw"
                       /\ pc' = "init"
                       /\ UNCHANGED <<tcfail, E, quit_times, nkeys, buf, saved, F, clean_text, hist, readkey, now>>
    /\ UNCHANGED quit_presses

initEditor ==
    /\ pc = "init"
    /\ \E ws \in WinSizes \cup {[rows |-> 0, cols |-> 0]} :
          IF ws.rows = 0     \* getWindowSize returns -1
          THEN die(atexit)
          ELSE /\ E' = [ZeroE EXCEPT !.screenrows = ws.rows - 2, !.screencols = ws.cols]
               /\ pc' = "open"
               /\ UNCHANGED <<termios, tcfail, quit_times, nkeys, buf, saved, F, clean_text, hist, readkey, now>>
    /\ UNCHANGED <<atexit, quit_presses>>

HelpMsg == Msg("HELP: Ctrl-S = save | Ctr-Q = quit | Ctrl-F = find", 0, << >>)

\* the rest of main up to the first editorReadKey
StartLoop(e) ==
    /\ E' = editorRefreshScreen(editorSetStatusMessage(e, HelpMsg))
    /\ clean_text' = editorRowsToString(e.row)
    /\ UNCHANGED <<hist, readkey, now>>
    /\ pc' = "edit"
    /\ UNCHANGED <<termios, tcfail, quit_times, nkeys, buf, saved, F>>

mainNoFile ==
    /\ pc = "open"
    /\ StartLoop(E)
    /\ UNCHANGED <<atexit, quit_presses>>

mainOpenFile ==
    /\ pc = "open"
    /\ \E bytes \in Files \cup {<< -1 >>} :
          IF bytes = << -1 >>     \* fopen fails
          THEN die(atexit)
          ELSE LET e == editorOpen(E, FileName, bytes)
               IN  IF \E y \in 1..Len(e.row) : RenderOverflows(e.row[y].chars)
                   THEN \E o \in OverflowOutcomes :
                           IF o = "crash" THEN Crash
                           ELSE /\ E' = e
                                /\ pc' = "undefined"
                                /\ UNCHANGED <<termios, tcfail, quit_times, nkeys,
                                               buf, saved, F, clean_text, hist, readkey, now>>
                   ELSE StartLoop(e)
    /\ UNCHANGED <<atexit, quit_presses>>

(***************************************************************************)
(* The main loop: editorProcessKeypress on the key that editorReadKey      *)
(* returned, then editorRefreshScreen.                                     *)
(***************************************************************************)
\* Resume without "quit_times = KILO_QUIT_TIMES"
ResumeKeepsCount(e) ==
    /\ nkeys' = nkeys + 1
    /\ E' = editorRefreshScreen(e)
    /\ quit_presses' = 0
    /\ pc' = "edit"
    /\ UNCHANGED <<termios, atexit, tcfail, quit_times, buf, saved, F, clean_text, hist, readkey, now>>

\* the end of editorProcessKeypress after the switch, and the refresh
Resume(e) ==
    /\ nkeys' = nkeys + 1
    /\ E' = editorRefreshScreen(e)
    /\ quit_times' = KILO_QUIT_TIMES
    /\ quit_presses' = 0
    /\ pc' = "edit"
    /\ UNCHANGED <<termios, atexit, tcfail, buf, saved, F, clean_text, hist, readkey, now>>

\* Undefined behaviour in a handler: the process is killed, or it runs on
\* with e, in which the reads outside the row array have yielded garbage
\* and the writes outside an object have hit no row; what the program does
\* from then on is not followed.
Undefined(e, outcomes) ==
    \E o \in outcomes :
        /\ quit_presses' = 0
        /\ IF o = "crash"
           THEN Crash
           ELSE /\ pc' = "undefined"
                /\ nkeys' = nkeys + 1
                /\ E' = e
                /\ quit_times' = KILO_QUIT_TIMES
                /\ UNCHANGED <<termios, atexit, tcfail, buf, saved, F, clean_text, hist, readkey, now>>

KeyEnter ==
    /\ pc = "edit"
    /\ nkeys < MaxKeys
    /\ IF editorInsertNewlineUB(E)
       THEN Undefined([E EXCEPT !.cy = E.cy + 1, !.cx = 0], UBOutcomes(E))
       ELSE Resume(editorInsertNewline(E))

KeyChar ==
    /\ pc = "edit"
    /\ nkeys < MaxKeys
    /\ \E c \in TypedBytes \cup {TAB} :
          IF editorInsertCharUB(E)
          THEN Undefined([E EXCEPT !.cx = E.cx + 1, !.dirty = E.dirty + 1],
                         UBOutcomes(E))
          ELSE LET e == editorInsertChar(E, c)
               IN  IF RenderOverflows(e.row[E.cy + 1].chars)
                   THEN Undefined(e, OverflowOutcomes)
                   ELSE Resume(e)

\* the call of editorDelChar in the BACKSPACE / Ctrl-H / DEL_KEY case, with
\* E as e1 at the call
DeleteStep(e1) ==
    IF editorDelCharUB(e1)
    THEN \E g \in Garbage :
            Undefined([e1 EXCEPT !.cx = g, !.cy = e1.cy - 1, !.dirty = e1.dirty + 1],
                      UBOutcomes(E))
    ELSE Resume(editorDelChar(e1))

\* BACKSPACE and Ctrl-H
KeyBackspace ==
    /\ pc = "edit"
    /\ nkeys < MaxKeys
    /\ DeleteStep(E)

\* DEL_KEY: a move to the right first
KeyDel ==
    /\ pc = "edit"
    /\ nkeys < MaxKeys
    /\ DeleteStep(editorMoveCursor(E, ARROW_RIGHT, 0))

KeyArrow ==
    /\ pc = "edit"
    /\ nkeys < MaxKeys
    /\ \E k \in {ARROW_UP, ARROW_DOWN, ARROW_LEFT, ARROW_RIGHT} :
          IF editorMoveCursorUB(E, k)
          THEN \E g \in Garbage : Undefined(editorMoveCursor(E, k, g), UBOutcomes(E))
          ELSE Resume(editorMoveCursor(E, k, 0))

KeyPage ==
    /\ pc = "edit"
    /\ nkeys < MaxKeys
    /\ \E k \in {PAGE_UP, PAGE_DOWN} : Resume(PageMove(E, k))

KeyHome ==
    /\ pc = "edit"
    /\ nkeys < MaxKeys
    /\ Resume([E EXCEPT !.cx = 0])

KeyEnd ==
    /\ pc = "edit"
    /\ nkeys < MaxKeys
    /\ Resume(IF E.cy < Len(E.row)
              THEN [E EXCEPT !.cx = Len(E.row[E.cy + 1].chars)] ELSE E)

\* Ctrl-L and Escape
KeyIgnored ==
    /\ pc = "edit"
    /\ nkeys < MaxKeys
    /\ Resume(E)

WarnMsg(n) ==
    Msg("WARNING!!! File has unsaved changes. Press Ctrl-Q %d more times to quit.", n, << >>)

\* the test of the Ctrl-Q case with "quit_times > 1"
QuitWarnsOffByOne(dirty, times) == dirty # 0 /\ times > 1

\* the test of the Ctrl-Q case: warn instead of quitting
QuitWarns(dirty, times) == dirty # 0 /\ times > 0

KeyQuit ==
    /\ pc = "edit"
    /\ nkeys < MaxKeys
    /\ quit_presses' = quit_presses + 1
    /\ IF QuitWarns(E.dirty, quit_times)
       THEN /\ nkeys' = nkeys + 1
            /\ E' = editorRefreshScreen(editorSetStatusMessage(E, WarnMsg(quit_times)))
            /\ quit_times' = quit_times - 1
            /\ UNCHANGED <<pc, termios, tcfail, buf, saved, F, clean_text, hist, readkey, now>>
       ELSE die(atexit)
    /\ UNCHANGED atexit

\* editorSave from the serialization on, and back in the main loop
\* editorSave from the serialization on, with io what the system calls do,
\* then the end of editorProcessKeypress and the refresh; a write of no
\* byte cannot come short
SaveAndResume(e, io) ==
    /\ io \in SaveOutcomes
    /\ io = "short" => editorRowsToStringLen(e.row) > 0
    /\ nkeys' = nkeys + 1
    /\ E' = editorRefreshScreen(editorSaveWrite(e, io))
    /\ clean_text' = IF io = "ok" THEN editorRowsToString(e.row) ELSE clean_text
    /\ quit_times' = KILO_QUIT_TIMES
    /\ quit_presses' = 0
    /\ pc' = "edit"
    /\ buf' = << >>
    /\ UNCHANGED <<termios, atexit, tcfail, saved, F>>

\* editorPrompt up to its first editorReadKey
EnterPrompt(e, fmt) ==
    /\ nkeys' = nkeys + 1
    /\ buf' = << >>
    /\ E' = editorRefreshScreen(editorSetStatusMessage(e, Msg(fmt, 0, << >>)))
    /\ quit_presses' = 0
    /\ UNCHANGED <<termios, atexit, tcfail, quit_times, F, clean_text>>

SaveAsPrompt == "Save as: %s (ESC to cancel)"
SearchPrompt == "Search: %s (Use ESC/Arrows/Enter)"

\* Ctrl-S, with io what the system calls do if E.filename is set
KeySaveOn(io) ==
    /\ pc = "edit"
    /\ nkeys < MaxKeys
    /\ io \in SaveTries(E.filename # NULL)
    /\ IF E.filename = NULL
       THEN /\ EnterPrompt(E, SaveAsPrompt)
            /\ pc' = "saveas"
            /\ UNCHANGED saved
       ELSE SaveAndResume(E, io)

KeySave == \E io \in SaveOutcomes \cup {"none"} : KeySaveOn(io) /\ UNCHANGED <<hist, readkey, now>>

\* Ctrl-F: editorFind up to the first editorReadKey of its prompt
editorFindStart ==
    /\ pc = "edit"
    /\ nkeys < MaxKeys
    /\ EnterPrompt(E, SearchPrompt)
    /\ saved' = [cx |-> E.cx, cy |-> E.cy, coloff |-> E.coloff, rowoff |-> E.rowoff]
    /\ pc' = "find"

KeyFind == editorFindStart /\ UNCHANGED <<hist, readkey, now>>

(***************************************************************************)
(* The loop of editorPrompt on the key k.                                  *)
(***************************************************************************)
\* what the loop body does with buf, and whether editorPrompt returns:
\* "loop", "null" (returns NULL) or "buf" (returns buf)
\* the body of the loop returning on Enter whatever the length of the input
PromptBodyReturnsEmpty(b, k) ==
    IF k = DEL_KEY \/ k = CTRL_KEY(104) \/ k = BACKSPACE
    THEN [ret |-> "loop", buf |-> IF Len(b) # 0 THEN SubSeq(b, 1, Len(b) - 1) ELSE b]
    ELSE IF k = ESC THEN [ret |-> "null", buf |-> b]
    ELSE IF k = ENTER
         THEN [ret |-> "buf", buf |-> b]
    ELSE IF ~iscntrl(k) /\ k < 128 THEN [ret |-> "loop", buf |-> Append(b, k)]
    ELSE [ret |-> "loop", buf |-> b]

PromptBody(b, k) ==
    IF k = DEL_KEY \/ k = CTRL_KEY(104) \/ k = BACKSPACE
    THEN [ret |-> "loop", buf |-> IF Len(b) # 0 THEN SubSeq(b, 1, Len(b) - 1) ELSE b]
    ELSE IF k = ESC THEN [ret |-> "null", buf |-> b]
    ELSE IF k = ENTER
         THEN [ret |-> IF Len(b) # 0 THEN "buf" ELSE "loop", buf |-> b]
    ELSE IF ~iscntrl(k) /\ k < 128 THEN [ret |-> "loop", buf |-> Append(b, k)]
    ELSE [ret |-> "loop", buf |-> b]

\* editorFind without the "else" that restores the saved cursor
editorFindReturnKeeps(e, ret) == e

\* the tail of editorFind once editorPrompt has returned
editorFindReturn(e, ret) ==
    IF ret = "buf" THEN e
    ELSE [e EXCEPT !.cx = saved.cx, !.cy = saved.cy,
                   !.coloff = saved.coloff, !.rowoff = saved.rowoff]

\* the key k read in the search prompt
FindKeyOn(k) ==
    /\ pc = "find"
    /\ nkeys < MaxKeys
    /\ LET p == PromptBody(buf, k)
           e0 == IF p.ret = "loop" THEN E ELSE editorSetStatusMessage(E, NoMsg)
           ef == editorFindCallback([E |-> e0, F |-> F], p.buf, k)
       IN  /\ nkeys' = nkeys + 1
           /\ F' = ef.F
           /\ IF p.ret = "loop"
              THEN /\ E' = editorRefreshScreen(
                              editorSetStatusMessage(ef.E, Msg(SearchPrompt, 0, p.buf)))
                   /\ buf' = p.buf
                   /\ UNCHANGED <<pc, quit_times, quit_presses, saved>>
              ELSE /\ E' = editorRefreshScreen(editorFindReturn(ef.E, p.ret))
                   /\ buf' = << >>
                   /\ saved' = NoSaved
                   /\ quit_times' = KILO_QUIT_TIMES
                   /\ pc' = "edit"
                   /\ UNCHANGED quit_presses
    /\ UNCHANGED <<termios, atexit, tcfail, clean_text>>

FindKey == \E k \in Keys : FindKeyOn(k) /\ UNCHANGED <<hist, readkey, now>>

\* the key k read in the save-as prompt, with io what the system calls do
\* if k ends the prompt with a file name
SaveAsKeyOn(k, io) ==
    /\ pc = "saveas"
    /\ nkeys < MaxKeys
    /\ LET p == PromptBody(buf, k)
       IN  /\ io \in SaveTries(p.ret = "buf")
           /\ CASE p.ret = "loop" ->
                     /\ E' = editorRefreshScreen(
                                editorSetStatusMessage(E, Msg(SaveAsPrompt, 0, p.buf)))
                     /\ buf' = p.buf
                     /\ nkeys' = nkeys + 1
                     /\ UNCHANGED <<pc, quit_times, quit_presses, clean_text,
                                    termios, atexit, tcfail, saved, F>>
                [] p.ret = "null" ->
                     /\ E' = editorRefreshScreen(
                                editorSetStatusMessage(E, Msg("Save aborted", 0, << >>)))
                     /\ buf' = << >>
                     /\ nkeys' = nkeys + 1
                     /\ quit_times' = KILO_QUIT_TIMES
                     /\ pc' = "edit"
                     /\ UNCHANGED <<quit_presses, clean_text, termios, atexit,
                                    tcfail, saved, F>>
                [] p.ret = "buf" ->
                     SaveAndResume([E EXCEPT !.filename = p.buf], io)

SaveAsKey ==
    \E k \in Keys, io \in SaveOutcomes \cup {"none"} : SaveAsKeyOn(k, io) /\ UNCHANGED <<hist, readkey, now>>

\* read() fails in editorReadKey: die("read")
ReadFails ==
    /\ pc \in {"edit", "find", "saveas"}
    /\ die(atexit)
    /\ UNCHANGED <<atexit, quit_presses>>

Next ==
    \/ enableRawMode
    \/ initEditor
    \/ mainNoFile
    \/ mainOpenFile
    \/ KeyEnter
    \/ KeyChar
    \/ KeyBackspace
    \/ KeyDel
    \/ KeyArrow
    \/ KeyPage
    \/ KeyHome
    \/ KeyEnd
    \/ KeyIgnored
    \/ KeyQuit
    \/ KeySave
    \/ KeyFind
    \/ FindKey
    \/ SaveAsKey
    \/ ReadFails

Spec == Init /\ [][Next]_vars

(***************************************************************************)
(* editorRefreshScreen on its own: one refresh from any cursor position on *)
(* a document whose rows may hold tabs, any previous offsets and any of    *)
(* the window sizes.                                                       *)
(***************************************************************************)
ScrollChars == {97, TAB}

ScrollLines == UNION {[1..n -> ScrollChars] : n \in 0..ScrollMaxLen}

ScrollDocs == UNION {[1..n -> ScrollLines] : n \in 0..ScrollMaxRows}

\* window sizes getWindowSize reports: initEditor leaves rows - 2 text rows
ScrollWinSizes == {[rows |-> r, cols |-> c] : r \in {3, 4}, c \in {1, 2}}

ScrollInit ==
    /\ pc = "refresh"
    /\ termios = "raw"
    /\ atexit = TRUE
    /\ tcfail = FALSE
    /\ \E doc \in ScrollDocs, ws \in ScrollWinSizes,
          ro \in 0..ScrollMaxOff, co \in 0..ScrollMaxOff :
          \E cy \in 0..Len(doc) :
             \E cx \in 0..(IF cy < Len(doc) THEN Len(doc[cy + 1]) ELSE 0) :
                E = [ZeroE EXCEPT !.row = [y \in 1..Len(doc) |-> editorUpdateRow(doc[y])],
                                  !.cx = cx, !.cy = cy, !.rowoff = ro, !.coloff = co,
                                  !.screenrows = ws.rows - 2, !.screencols = ws.cols]
    /\ quit_times = KILO_QUIT_TIMES
    /\ quit_presses = 0
    /\ nkeys = 0
    /\ buf = << >>
    /\ saved = NoSaved
    /\ F = FindStatics
    /\ clean_text = << >>
    /\ hist = << >>
    /\ readkey = 0
    /\ now = 0

RefreshStep ==
    /\ pc = "refresh"
    /\ E' = editorRefreshScreen(E)
    /\ pc' = "refreshed"
    /\ UNCHANGED <<termios, atexit, tcfail, quit_times, quit_presses, nkeys, buf,
                   saved, F, clean_text, hist, readkey, now>>

ScrollSpec == ScrollInit /\ [][RefreshStep]_vars

(***************************************************************************)
(* The editor operations on their own: editorInsertChar, editorDelChar,    *)
(* editorInsertNewline and editorMoveCursor applied in any order to the    *)
(* empty document that initEditor leaves, each followed by the refresh.    *)
(* hist is the keys that stand for the operations applied so far.          *)
(***************************************************************************)
ArrowKeys == {ARROW_UP, ARROW_DOWN, ARROW_LEFT, ARROW_RIGHT}

EditInit ==
    /\ pc = "ops"
    /\ termios = "raw"
    /\ atexit = TRUE
    /\ tcfail = FALSE
    /\ \E ws \in WinSizes :
          E = [ZeroE EXCEPT !.screenrows = ws.rows - 2, !.screencols = ws.cols]
    /\ quit_times = KILO_QUIT_TIMES
    /\ quit_presses = 0
    /\ nkeys = 0
    /\ buf = << >>
    /\ saved = NoSaved
    /\ F = FindStatics
    /\ clean_text = << >>
    /\ hist = << >>
    /\ readkey = 0
    /\ now = 0

\* the operation that key k stands for has made e of E, unless ub says that
\* its behaviour is undefined
EditStep(k, ub, e) ==
    /\ hist' = Append(hist, k)
    /\ UNCHANGED <<readkey, now>>
    /\ IF ub
       THEN /\ pc' = "undefined"
            /\ UNCHANGED E
       ELSE /\ E' = editorRefreshScreen(e)
            /\ UNCHANGED pc
    /\ UNCHANGED <<termios, atexit, tcfail, quit_times, quit_presses, nkeys, buf,
                   saved, F, clean_text>>

InsertCharStep ==
    /\ pc = "ops"
    /\ Len(hist) < EditMaxOps
    /\ \E c \in TypedBytes :
          EditStep(c, editorInsertCharUB(E), editorInsertChar(E, c))

DelCharStep ==
    /\ pc = "ops"
    /\ Len(hist) < EditMaxOps
    /\ EditStep(BACKSPACE, editorDelCharUB(E), editorDelChar(E))

InsertNewlineStep ==
    /\ pc = "ops"
    /\ Len(hist) < EditMaxOps
    /\ EditStep(ENTER, editorInsertNewlineUB(E), editorInsertNewline(E))

MoveCursorStep ==
    /\ pc = "ops"
    /\ Len(hist) < EditMaxOps
    /\ \E k \in ArrowKeys :
          EditStep(k, editorMoveCursorUB(E, k), editorMoveCursor(E, k, 0))

EditNext == InsertCharStep \/ DelCharStep \/ InsertNewlineStep \/ MoveCursorStep

EditSpec == EditInit /\ [][EditNext]_vars

(***************************************************************************)
(* editorOpen on its own: main has opened the terminal and run initEditor, *)
(* and argv[1] names a file whose content is hist.                          *)
(***************************************************************************)
LoadBytes == {97, CR, NEWLINE, TAB}

LoadFiles == UNION {[1..n -> LoadBytes] : n \in 0..LoadMaxLen}

LoadInit ==
    /\ pc = "load"
    /\ termios = "raw"
    /\ atexit = TRUE
    /\ tcfail = FALSE
    /\ \E ws \in WinSizes :
          E = [ZeroE EXCEPT !.screenrows = ws.rows - 2, !.screencols = ws.cols]
    /\ quit_times = KILO_QUIT_TIMES
    /\ quit_presses = 0
    /\ nkeys = 0
    /\ buf = << >>
    /\ saved = NoSaved
    /\ F = FindStatics
    /\ clean_text = << >>
    /\ hist \in LoadFiles
    /\ readkey = 0
    /\ now = 0

\* editorOpen(argv[1]) with fopen succeeding
OpenStep ==
    /\ pc = "load"
    /\ LET e == editorOpen(E, FileName, hist)
       IN  IF \E y \in 1..Len(e.row) : RenderOverflows(e.row[y].chars)
           THEN \E o \in OverflowOutcomes :
                   IF o = "crash" THEN Crash
                   ELSE /\ E' = e
                        /\ pc' = "undefined"
                        /\ UNCHANGED <<termios, atexit, tcfail, quit_times, nkeys,
                                       buf, saved, F, clean_text, hist, readkey, now>>
           ELSE /\ E' = e
                /\ pc' = "loaded"
                /\ UNCHANGED <<termios, atexit, tcfail, quit_times, nkeys,
                               buf, saved, F, clean_text, hist, readkey, now>>
    /\ UNCHANGED quit_presses

LoadSpec == LoadInit /\ [][OpenStep]_vars

(***************************************************************************)
(* editorRowCxToRx and editorRowRxToCx on their own: on a row of tabs and  *)
(* other bytes, a chars index cx (kept in hist) is converted to the render *)
(* index E.rx, and E.rx back to a chars index E.cx.                        *)
(***************************************************************************)
RowChars == {97, TAB}

RowLines == UNION {[1..n -> RowChars] : n \in 0..RowMaxLen}

RowInit ==
    /\ pc = "row"
    /\ termios = "raw"
    /\ atexit = TRUE
    /\ tcfail = FALSE
    /\ \E ws \in WinSizes, chars \in RowLines :
          \E cx \in 0..Len(chars) :
             /\ E = [ZeroE EXCEPT !.row = <<editorUpdateRow(chars)>>, !.cx = cx,
                                  !.screenrows = ws.rows - 2, !.screencols = ws.cols]
             /\ hist = <<cx>>
             /\ readkey = 0
             /\ now = 0
    /\ quit_times = KILO_QUIT_TIMES
    /\ quit_presses = 0
    /\ nkeys = 0
    /\ buf = << >>
    /\ saved = NoSaved
    /\ F = FindStatics
    /\ clean_text = << >>

\* E.rx = editorRowCxToRx(&E.row[E.cy], E.cx)
CxToRxStep ==
    /\ pc = "row"
    /\ E' = [E EXCEPT !.rx = editorRowCxToRx(E.row[E.cy + 1].chars, E.cx)]
    /\ pc' = "rx"
    /\ UNCHANGED <<termios, atexit, tcfail, quit_times, quit_presses, nkeys, buf,
                   saved, F, clean_text, hist, readkey, now>>

\* E.cx = editorRowRxToCx(&E.row[E.cy], E.rx)
RxToCxStep ==
    /\ pc = "rx"
    /\ E' = [E EXCEPT !.cx = editorRowRxToCx(E.row[E.cy + 1].chars, E.rx)]
    /\ pc' = "cx"
    /\ UNCHANGED <<termios, atexit, tcfail, quit_times, quit_presses, nkeys, buf,
                   saved, F, clean_text, hist, readkey, now>>

RowNext == CxToRxStep \/ RxToCxStep

RowSpec == RowInit /\ [][RowNext]_vars

(***************************************************************************)
(* editorFind on its own: the main loop waits for a key with one of a few  *)
(* documents loaded and the cursor anywhere in it, and the keyboard sends  *)
(* Ctrl-F and then the keys of the search prompt, up to MaxKeys keys.      *)
(* A row with a tab is as editorUpdateRow builds it when the bytes it      *)
(* writes past render do no harm.                                          *)
(***************************************************************************)
\* no line, and "aba" and tab "1a" by turns
FindDocs == {<< >>,
             <<(<<97, 98, 97>>), (<<TAB, 49, 97>>), (<<97, 98, 97>>)>>,
             <<(<<TAB, 49, 97>>), (<<97, 98, 97>>), (<<TAB, 49, 97>>)>>}

FindInit ==
    /\ pc = "edit"
    /\ termios = "raw"
    /\ atexit = TRUE
    /\ tcfail = FALSE
    /\ \E ws \in WinSizes, doc \in FindDocs :
          \E cy \in 0..Len(doc) :
             \E cx \in 0..(IF cy < Len(doc) THEN Len(doc[cy + 1]) ELSE 0) :
                E = editorRefreshScreen(
                       [ZeroE EXCEPT !.row = [y \in 1..Len(doc) |-> editorUpdateRow(doc[y])],
                                     !.cx = cx, !.cy = cy,
                                     !.screenrows = ws.rows - 2, !.screencols = ws.cols])
    /\ quit_times = KILO_QUIT_TIMES
    /\ quit_presses = 0
    /\ nkeys = 0
    /\ buf = << >>
    /\ saved = NoSaved
    /\ F = FindStatics
    /\ clean_text = << >>
    /\ hist = << >>
    /\ readkey = 0
    /\ now = 0

\* the key read in the search prompt, kept in hist
FindKeyLogged == \E k \in Keys : FindKeyOn(k) /\ hist' = <<k>> /\ UNCHANGED <<readkey, now>>

FindNext == KeyFind \/ FindKeyLogged

FindSpec == FindInit /\ [][FindNext]_vars

(***************************************************************************)
(* editorSave on its own: the main loop waits for a key with one of a few  *)
(* documents, changed or not, with or without a file name, and the         *)
(* keyboard sends Ctrl-S and the keys of the save-as prompt, up to MaxKeys *)
(* keys.  hist is the key read last and what the system calls did on it.   *)
(***************************************************************************)
\* no line, "a", and "ab" and "b"
SaveDocs == {<< >>, <<(<<97>>)>>, <<(<<97, 98>>), (<<98>>)>>}

SaveInit ==
    /\ pc = "edit"
    /\ termios = "raw"
    /\ atexit = TRUE
    /\ tcfail = FALSE
    /\ \E ws \in WinSizes, doc \in SaveDocs, name \in {NULL, FileName}, changes \in {0, 3} :
          \E cy \in 0..Len(doc) :
             \E cx \in 0..(IF cy < Len(doc) THEN Len(doc[cy + 1]) ELSE 0) :
                /\ E = editorRefreshScreen(
                          [ZeroE EXCEPT !.row = [y \in 1..Len(doc) |-> editorUpdateRow(doc[y])],
                                        !.cx = cx, !.cy = cy,
                                        !.filename = name, !.dirty = changes,
                                        !.screenrows = ws.rows - 2, !.screencols = ws.cols])
                /\ clean_text = IF changes = 0 THEN editorRowsToString(E.row) ELSE << >>
    /\ quit_times = KILO_QUIT_TIMES
    /\ quit_presses = 0
    /\ nkeys = 0
    /\ buf = << >>
    /\ saved = NoSaved
    /\ F = FindStatics
    /\ hist = << >>
    /\ readkey = 0
    /\ now = 0

KeySaveLogged ==
    \E io \in SaveOutcomes \cup {"none"} : KeySaveOn(io) /\ hist' = <<CTRL_KEY(115), io>> /\ UNCHANGED <<readkey, now>>

SaveAsKeyLogged ==
    \E k \in Keys, io \in SaveOutcomes \cup {"none"} : SaveAsKeyOn(k, io) /\ hist' = <<k, io>> /\ UNCHANGED <<readkey, now>>

SaveNext == KeySaveLogged \/ SaveAsKeyLogged

SaveSpec == SaveInit /\ [][SaveNext]_vars

(***************************************************************************)
(* The switch of editorProcessKeypress alone, on the keys whose case acts  *)
(* on E only (Ctrl-Q, Ctrl-S and Ctrl-F are left to the actions above),    *)
(* applied in any order to the empty document that initEditor leaves.      *)
(* hist is the keys read so far.                                           *)
(***************************************************************************)
\* Ctrl-J, Ctrl-A, the byte 0xC8 as editorReadKey returns it where char is
\* unsigned and where it is signed, a, and keys with a case of their own
DispatchKeys == {CTRL_KEY(106), CTRL_KEY(97), 200, -56, 97, ENTER, BACKSPACE,
                 DEL_KEY, ARROW_LEFT, HOME_KEY, CTRL_KEY(108)}

\* the switch with DEL_KEY handled as BACKSPACE, without the move to the right
editorProcessKeypressDelStays(e, c) ==
    CASE c = ENTER -> editorInsertNewline(e)
      [] c = HOME_KEY -> [e EXCEPT !.cx = 0]
      [] c = END_KEY ->
            IF e.cy < Len(e.row) THEN [e EXCEPT !.cx = Len(e.row[e.cy + 1].chars)] ELSE e
      [] c \in {BACKSPACE, CTRL_KEY(104)} -> editorDelChar(e)
      [] c = DEL_KEY -> editorDelChar(e)
      [] c \in {PAGE_UP, PAGE_DOWN} -> PageMove(e, c)
      [] c \in ArrowKeys -> editorMoveCursor(e, c, 0)
      [] c \in {CTRL_KEY(108), ESC} -> e
      [] OTHER -> editorInsertChar(e, c)

\* the switch on c
editorProcessKeypress(e, c) ==
    CASE c = ENTER -> editorInsertNewline(e)
      [] c = HOME_KEY -> [e EXCEPT !.cx = 0]
      [] c = END_KEY ->
            IF e.cy < Len(e.row) THEN [e EXCEPT !.cx = Len(e.row[e.cy + 1].chars)] ELSE e
      [] c \in {BACKSPACE, CTRL_KEY(104)} -> editorDelChar(e)
      [] c = DEL_KEY -> editorDelChar(editorMoveCursor(e, ARROW_RIGHT, 0))
      [] c \in {PAGE_UP, PAGE_DOWN} -> PageMove(e, c)
      [] c \in ArrowKeys -> editorMoveCursor(e, c, 0)
      [] c \in {CTRL_KEY(108), ESC} -> e
      [] OTHER -> editorInsertChar(e, c)

\* the case of c reads or writes outside the row array
editorProcessKeypressUB(e, c) ==
    CASE c = ENTER -> editorInsertNewlineUB(e)
      [] c \in {BACKSPACE, CTRL_KEY(104)} -> editorDelCharUB(e)
      [] c = DEL_KEY -> editorDelCharUB(editorMoveCursor(e, ARROW_RIGHT, 0))
      [] c \in ArrowKeys -> editorMoveCursorUB(e, c)
      [] c \in {HOME_KEY, END_KEY, PAGE_UP, PAGE_DOWN, CTRL_KEY(108), ESC} -> FALSE
      [] OTHER -> editorInsertCharUB(e)

ProcessKeyStep ==
    /\ pc = "ops"
    /\ Len(hist) < EditMaxOps
    /\ \E c \in DispatchKeys :
          EditStep(c, editorProcessKeypressUB(E, c), editorProcessKeypress(E, c))

DispatchSpec == EditInit /\ [][ProcessKeyStep]_vars

(***************************************************************************)
(* The status message and the clock.  The main loop waits for a key with   *)
(* the empty document; time passes in seconds, and the keyboard sends      *)
(* Ctrl-S, Ctrl-F, keys of the two prompts and keys that set no message,   *)
(* up to MaxKeys keys.  hist is the time of the last call of               *)
(* editorSetStatusMessage and the time of the last editorRefreshScreen.    *)
(***************************************************************************)
MsgInit ==
    /\ pc = "edit"
    /\ termios = "raw"
    /\ atexit = TRUE
    /\ tcfail = FALSE
    /\ now = 0
    /\ \E ws \in WinSizes, name \in {NULL, FileName} :
          E = editorRefreshScreen(editorSetStatusMessage(
                 [ZeroE EXCEPT !.filename = name, !.screenrows = ws.rows - 2,
                               !.screencols = ws.cols], HelpMsg))
    /\ quit_times = KILO_QUIT_TIMES
    /\ quit_presses = 0
    /\ nkeys = 0
    /\ buf = << >>
    /\ saved = NoSaved
    /\ F = FindStatics
    /\ clean_text = << >>
    /\ hist = <<now, now>>
    /\ readkey = 0

\* a second passes while editorReadKey waits
Tick ==
    /\ pc \in {"edit", "find", "saveas"}
    /\ now < MsgMaxTime
    /\ now' = now + 1
    /\ UNCHANGED <<pc, termios, atexit, tcfail, E, quit_times, quit_presses, nkeys,
                   buf, saved, F, clean_text, hist, readkey>>

\* a key whose case sets no status message
MsgEditKey ==
    /\ pc = "edit"
    /\ nkeys < MaxKeys
    /\ \E c \in {97, ARROW_LEFT} :
          /\ ~editorProcessKeypressUB(E, c)
          /\ E' = editorRefreshScreen(editorProcessKeypress(E, c))
    /\ nkeys' = nkeys + 1
    /\ quit_times' = KILO_QUIT_TIMES
    /\ quit_presses' = 0
    /\ hist' = <<hist[1], now>>
    /\ UNCHANGED <<pc, termios, atexit, tcfail, buf, saved, F, clean_text, readkey, now>>

MsgSaveKey ==
    \E io \in SaveOutcomes \cup {"none"} :
       KeySaveOn(io) /\ hist' = <<now, now>> /\ UNCHANGED <<readkey, now>>

MsgSaveAsKey ==
    \E k \in {ESC, 97, ENTER}, io \in SaveOutcomes \cup {"none"} :
       SaveAsKeyOn(k, io) /\ hist' = <<now, now>> /\ UNCHANGED <<readkey, now>>

MsgFindKey == editorFindStart /\ hist' = <<now, now>> /\ UNCHANGED <<readkey, now>>

MsgFindPromptKey ==
    \E k \in {ESC, 97} : FindKeyOn(k) /\ hist' = <<now, now>> /\ UNCHANGED <<readkey, now>>

MsgNext ==
    \/ Tick
    \/ MsgEditKey
    \/ MsgSaveKey
    \/ MsgSaveAsKey
    \/ MsgFindKey
    \/ MsgFindPromptKey

MsgSpec == MsgInit /\ [][MsgNext]_vars

(***************************************************************************)
(* editorInsertRow and editorDelRow alone, called with any index from -1   *)
(* to numrows + 1 on the document that the calls before have left,         *)
(* starting from the empty one.  hist is the last call: its name and at.   *)
(***************************************************************************)
\* the indices tried on a document of n rows
RowIndices(n) == -1..(n + 1)

InsertRowStep ==
    /\ pc = "rowops"
    /\ nkeys < EditMaxOps
    /\ \E at \in RowIndices(Len(E.row)), s \in {<<97>>, <<98>>} :
          /\ E' = editorInsertRow(E, at, s)
          /\ hist' = <<"editorInsertRow", at>>
    /\ nkeys' = nkeys + 1
    /\ UNCHANGED <<pc, termios, atexit, tcfail, quit_times, quit_presses, buf, saved,
                   F, clean_text, readkey, now>>

DelRowStep ==
    /\ pc = "rowops"
    /\ nkeys < EditMaxOps
    /\ \E at \in RowIndices(Len(E.row)) :
          /\ hist' = <<"editorDelRow", at>>
          /\ IF editorDelRowUB(E, at)
             THEN \E o \in UBOutcomes(E) :
                     /\ pc' = IF o = "crash" THEN "crashed" ELSE "undefined"
                     /\ E' = IF o = "crash" THEN ZeroE ELSE editorDelRow(E, at)
             ELSE /\ E' = editorDelRow(E, at)
                  /\ UNCHANGED pc
    /\ nkeys' = nkeys + 1
    /\ UNCHANGED <<termios, atexit, tcfail, quit_times, quit_presses, buf, saved,
                   F, clean_text, readkey, now>>

RowOpsInit ==
    /\ pc = "rowops"
    /\ termios = "raw"
    /\ atexit = TRUE
    /\ tcfail = FALSE
    /\ \E ws \in WinSizes :
          E = [ZeroE EXCEPT !.screenrows = ws.rows - 2, !.screencols = ws.cols]
    /\ quit_times = KILO_QUIT_TIMES
    /\ quit_presses = 0
    /\ nkeys = 0
    /\ buf = << >>
    /\ saved = NoSaved
    /\ F = FindStatics
    /\ clean_text = << >>
    /\ hist = << >>
    /\ readkey = 0
    /\ now = 0

RowOpsNext == InsertRowStep \/ DelRowStep

RowOpsSpec == RowOpsInit /\ [][RowOpsNext]_vars

(***************************************************************************)
(* editorUpdateRow alone: the row with the bytes hist, of a and tab, is    *)
(* put into the empty document by editorInsertRow, which builds its render *)
(* with editorUpdateRow.                                                   *)
(***************************************************************************)
RenderInit ==
    /\ pc = "render"
    /\ termios = "raw"
    /\ atexit = TRUE
    /\ tcfail = FALSE
    /\ \E ws \in WinSizes :
          E = [ZeroE EXCEPT !.screenrows = ws.rows - 2, !.screencols = ws.cols]
    /\ quit_times = KILO_QUIT_TIMES
    /\ quit_presses = 0
    /\ nkeys = 0
    /\ buf = << >>
    /\ saved = NoSaved
    /\ F = FindStatics
    /\ clean_text = << >>
    /\ hist \in RowLines
    /\ readkey = 0
    /\ now = 0

UpdateRowStep ==
    /\ pc = "render"
    /\ IF RenderOverflows(hist)
       THEN \E o \in OverflowOutcomes :
               /\ pc' = IF o = "crash" THEN "crashed" ELSE "undefined"
               /\ E' = IF o = "crash" THEN ZeroE ELSE editorInsertRow(E, 0, hist)
       ELSE /\ pc' = "rendered"
            /\ E' = editorInsertRow(E, 0, hist)
    /\ UNCHANGED <<termios, atexit, tcfail, quit_times, quit_presses, nkeys, buf,
                   saved, F, clean_text, hist, readkey, now>>

RenderSpec == RenderInit /\ [][UpdateRowStep]_vars

(***************************************************************************)
(* editorUpdateSyntax alone: the row with the bytes hist, which holds no   *)
(* tab and so is its own render, is put into the empty document as in      *)
(* RenderSpec.                                                             *)
(***************************************************************************)
\* 1 . a space and the null byte
SyntaxChars == {49, DOT, 97, 32, NUL}

SyntaxLines == UNION {[1..n -> SyntaxChars] : n \in 0..SyntaxMaxLen}

SyntaxInit ==
    /\ pc = "render"
    /\ termios = "raw"
    /\ atexit = TRUE
    /\ tcfail = FALSE
    /\ \E ws \in WinSizes :
          E = [ZeroE EXCEPT !.screenrows = ws.rows - 2, !.screencols = ws.cols]
    /\ quit_times = KILO_QUIT_TIMES
    /\ quit_presses = 0
    /\ nkeys = 0
    /\ buf = << >>
    /\ saved = NoSaved
    /\ F = FindStatics
    /\ clean_text = << >>
    /\ hist \in SyntaxLines
    /\ readkey = 0
    /\ now = 0

SyntaxSpec == SyntaxInit /\ [][UpdateRowStep]_vars

(***************************************************************************)
(* editorReadKey alone.  Each step is one read() on the terminal: it       *)
(* yields a byte, or TIMEOUT when no byte came within the 0.1 s of VTIME   *)
(* (read returns 0, or -1 with EAGAIN).  hist is what the reads of the     *)
(* invocation have yielded so far, readkey what the function returned.     *)
(***************************************************************************)
TIMEOUT == -1

\* bytes the terminal sends: ESC [ O 0..9 ~ A B C D F H, and \r a 0xC8
ReadBytes == {ESC, 91, 79, 126, 65, 66, 67, 68, 70, 72, ENTER, 97, 200} \cup 48..57

\* the byte b as the int that "char c" holds: plain char is signed or
\* unsigned as the build has it
CharToInt(b, signed) == IF signed /\ b >= 128 THEN b - 256 ELSE b

\* the switch on seq[1] after ESC [ digit ~, with the 7 and 8 cases left out
TildeKeyVt(d) ==
    CASE d = 49 -> HOME_KEY
      [] d = 51 -> DEL_KEY
      [] d = 52 -> END_KEY
      [] d = 53 -> PAGE_UP
      [] d = 54 -> PAGE_DOWN
      [] OTHER -> ESC

\* the switch on seq[1] after ESC [ digit ~
TildeKey(d) ==
    CASE d = 49 -> HOME_KEY
      [] d = 51 -> DEL_KEY
      [] d = 52 -> END_KEY
      [] d = 53 -> PAGE_UP
      [] d = 54 -> PAGE_DOWN
      [] d = 55 -> HOME_KEY
      [] d = 56 -> END_KEY
      [] OTHER -> ESC

\* the switch on seq[1] after ESC [
BracketKey(l) ==
    CASE l = 65 -> ARROW_UP
      [] l = 66 -> ARROW_DOWN
      [] l = 67 -> ARROW_RIGHT
      [] l = 68 -> ARROW_LEFT
      [] l = 72 -> HOME_KEY
      [] l = 70 -> END_KEY
      [] OTHER -> ESC

\* the switch on seq[1] in the branch "seq[0] == '0'"
ZeroKey(l) ==
    CASE l = 72 -> HOME_KEY
      [] l = 70 -> END_KEY
      [] OTHER -> ESC

\* editorReadKey goes on to another read() after the reads r: r is c alone
\* when c is ESC, then seq[0], then seq[1], seq[2]
ReadsOn(r) ==
    /\ r[1] = ESC
    /\ r[Len(r)] # TIMEOUT
    /\ \/ Len(r) < 3
       \/ Len(r) = 3 /\ r[2] = 91 /\ isdigit(r[3])

\* what editorReadKey returns after the reads r, the last of them
editorReadKey(r, signed) ==
    IF r[1] # ESC THEN CharToInt(r[1], signed)
    ELSE IF r[Len(r)] = TIMEOUT THEN ESC
    ELSE IF r[2] = 91
         THEN IF isdigit(r[3])
              THEN IF r[4] = 126 THEN TildeKey(r[3]) ELSE ESC
              ELSE BracketKey(r[3])
    ELSE IF r[2] = 48 THEN ZeroKey(r[3])
    ELSE ESC

ReadInit ==
    /\ pc = "read"
    /\ termios = "raw"
    /\ atexit = TRUE
    /\ tcfail = FALSE
    /\ E = ZeroE
    /\ quit_times = KILO_QUIT_TIMES
    /\ quit_presses = 0
    /\ nkeys = 0
    /\ buf = << >>
    /\ saved = NoSaved
    /\ F = FindStatics
    /\ clean_text = << >>
    /\ hist = << >>
    /\ readkey = 0
    /\ now = 0

\* one read(): the first one is tried again on a timeout
ReadStep ==
    /\ pc = "read"
    /\ \E b \in ReadBytes \cup {TIMEOUT}, signed \in BOOLEAN :
          IF hist = << >> /\ b = TIMEOUT
          THEN UNCHANGED <<pc, hist, readkey>>
          ELSE LET r == Append(hist, b)
               IN  /\ hist' = r
                   /\ IF ReadsOn(r)
                      THEN UNCHANGED <<pc, readkey>>
                      ELSE /\ readkey' = editorReadKey(r, signed)
                           /\ pc' = "key"
    /\ UNCHANGED <<termios, atexit, tcfail, E, quit_times, quit_presses, nkeys,
                   buf, saved, F, clean_text, now>>

ReadSpec == ReadInit /\ [][ReadStep]_vars

(***************************************************************************)
(* Properties.                                                             *)
(***************************************************************************)
\* the program is blocked in editorReadKey, the screen refreshed
Waiting == pc \in {"edit", "find", "saveas"}

\* the text of the document's lines
Lines(e) == [y \in 1..Len(e.row) |-> e.row[y].chars]

\* the length of the line the cursor is on, 0 when it is on no line
LineLen(e) == IF e.cy >= 0 /\ e.cy < Len(e.row) THEN Len(e.row[e.cy + 1].chars) ELSE 0

\* C1: whenever the program waits for a key, the cursor line index cy
\* satisfies 0 <= cy <= N, N the number of lines of the document.
C1_CursorLineInRange == Waiting => 0 <= E.cy /\ E.cy <= Len(E.row)

\* C2: after every key command the dispatcher has processed, the cursor
\* byte-column cx satisfies 0 <= cx <= length of line cy (0 when the cursor
\* is on no line).
C2_CursorColumnInRange ==
    (Waiting \/ pc = "undefined") => 0 <= E.cx /\ E.cx <= LineLen(E)

\* C2, on the states the program reaches without undefined behaviour
C2_ColumnInRangeWhileDefined == Waiting => 0 <= E.cx /\ E.cx <= LineLen(E)

\* C3: whenever the serialized document differs from what it was at the
\* last load or successful save (the empty document at startup), the dirty
\* counter is greater than zero.
C3_DirtyWhenContentDiffers ==
    Waiting => (editorRowsToString(E.row) # clean_text => E.dirty > 0)

\* 'n' consecutive Ctrl-Q presses on a dirty document: every press before
\* the n-th warns with the number of presses left and does not exit, the
\* n-th terminates the process
QuitExitsOnPress(n) ==
    KeyQuit /\ E.dirty # 0 =>
        IF quit_presses' < n
        THEN pc' = "edit" /\ E'.statusmsg = WarnMsg(KILO_QUIT_TIMES - quit_presses)
        ELSE pc' = "exited"

C5_OtherKeysResetQuitCount ==
    [][/\ (pc' = "edit" /\ ~KeyQuit) => quit_times' = KILO_QUIT_TIMES
       /\ (KeyQuit /\ pc' = "edit") => quit_times' = quit_times - 1]_vars

\* two warnings, then a key that is not quit: the count is full again
C5_Witness ==
    /\ pc = "edit"
    /\ E.dirty # 0
    /\ E.statusmsg = WarnMsg(KILO_QUIT_TIMES - 1)
    /\ quit_presses = 0
    /\ quit_times = KILO_QUIT_TIMES

\* C6: no process that terminated after enableRawMode registered the
\* restore has left the terminal in raw mode (a restore whose tcsetattr
\* failed aside).
C6_TerminalRestored ==
    (pc \in {"exited", "crashed"} /\ atexit /\ ~tcfail) => termios = "orig"

\* C6, on the paths that end in exit(): the quit command and die
C6_RestoredOnExit == (pc = "exited" /\ atexit /\ ~tcfail) => termios = "orig"

\* C7: after every screen refresh the viewport contains the cursor:
\* rowoff <= cy < rowoff + screenrows and coloff <= rx < coloff + screencols.
C7_ViewportContainsCursor ==
    (Waiting \/ pc = "refreshed") =>
        /\ E.rowoff <= E.cy /\ E.cy < E.rowoff + E.screenrows
        /\ E.coloff <= E.rx /\ E.rx < E.coloff + E.screencols

\* a refresh has scrolled down and right to a cursor behind a tab
C7_Witness ==
    /\ pc = "refreshed"
    /\ E.rowoff > 0
    /\ E.coloff > 0
    /\ E.rx = KILO_TAB_STOP

\* what insertChar(c) leaves as f of e
InsertCharPost(e, f, c) ==
    /\ e.cy \in 0..Len(e.row)
    /\ LET old == IF e.cy = Len(e.row) THEN Append(Lines(e), << >>) ELSE Lines(e)
           line == old[e.cy + 1]
       IN  /\ e.cx \in 0..Len(line)
           /\ Lines(f) = [old EXCEPT ![e.cy + 1] =
                             SubSeq(line, 1, e.cx) \o <<c>> \o SubSeq(line, e.cx + 1, Len(line))]
    /\ f.cx = e.cx + 1
    /\ f.cy = e.cy
    /\ f.dirty # 0

\* C8: insertChar(c) at (cy, cx) appends an empty line first if cy = N,
\* makes line cy its first cx bytes, c, and its remaining bytes, leaves the
\* other lines unchanged, advances cx by one, keeps cy, and leaves the dirty
\* counter non-zero.
C8_InsertCharContract ==
    [][KeyChar => \E c \in TypedBytes \cup {TAB} : InsertCharPost(E, E', c)]_vars

\* what insertNewline() leaves as f of e
InsertNewlinePost(e, f) ==
    LET old == Lines(e)
    IN  /\ e.cy \in 0..Len(old)
        /\ Len(Lines(f)) = Len(old) + 1
        /\ IF e.cx = 0
           THEN Lines(f) = InsertAt(old, e.cy, << >>)
           ELSE /\ e.cy < Len(old)
                /\ e.cx \in 0..Len(old[e.cy + 1])
                /\ Lines(f) = SubSeq(old, 1, e.cy)
                                 \o <<SubSeq(old[e.cy + 1], 1, e.cx),
                                      SubSeq(old[e.cy + 1], e.cx + 1, Len(old[e.cy + 1]))>>
                                 \o SubSeq(old, e.cy + 2, Len(old))
        /\ f.cy = e.cy + 1
        /\ f.cx = 0

\* C9: insertNewline() at (cy, cx) inserts an empty line at cy if cx = 0 and
\* splits line cy at cx otherwise; the number of lines grows by exactly 1,
\* the other lines keep content and order, and the cursor ends at (cy+1, 0).
C9_InsertNewlineContract == [][KeyEnter => InsertNewlinePost(E, E')]_vars

\* the cursor at column 0 of an existing line cy > 0
MergePre(e) == e.cx = 0 /\ e.cy > 0 /\ e.cy < Len(e.row)

\* what the merge leaves as f of e
MergePost(e, f) ==
    LET old == Lines(e)
    IN  /\ Lines(f) = SubSeq(old, 1, e.cy - 1) \o <<old[e.cy] \o old[e.cy + 1]>>
                         \o SubSeq(old, e.cy + 2, Len(old))
        /\ Len(Lines(f)) = Len(old) - 1
        /\ f.cy = e.cy - 1
        /\ f.cx = Len(old[e.cy])

DelCharPre(e) == e.cy >= 0 /\ e.cy < Len(e.row) /\ e.cx > 0

\* what deleting the byte before the cursor leaves as f of e
DelCharPost(e, f) ==
    LET old == Lines(e)
        line == old[e.cy + 1]
    IN  /\ e.cx <= Len(line)
        /\ Lines(f) = [old EXCEPT ![e.cy + 1] =
                          SubSeq(line, 1, e.cx - 1) \o SubSeq(line, e.cx + 1, Len(line))]
        /\ f.cy = e.cy
        /\ f.cx = e.cx - 1

DelCharNothing(e) == (e.cx = 0 /\ e.cy = 0) \/ e.cy = Len(e.row)

\* C12: deleteChar() with the cursor at (0,0) or with cy = N changes nothing:
\* the lines, their number, the cursor and the dirty counter stay as they
\* are, so that any number of consecutive calls there leaves cursor and
\* buffer unchanged.
C12_DeleteCharNoOp ==
    [][DelCharStep /\ DelCharNothing(E)
          => /\ E'.row = E.row
             /\ E'.cx = E.cx
             /\ E'.cy = E.cy
             /\ E'.dirty = E.dirty
             /\ DelCharNothing(E')]_vars

\* "a" typed and deleted, then deleteChar() twice more at (0,0)
C12_Witness ==
    /\ pc = "ops"
    /\ hist = <<97, BACKSPACE, BACKSPACE, BACKSPACE>>
    /\ Lines(E) = <<(<< >>)>>
    /\ E.cx = 0
    /\ E.cy = 0
    /\ E.dirty = 3

\* the bytes of the lines in order, one newline after each
RECURSIVE JoinLines(_)
JoinLines(lines) ==
    IF lines = << >> THEN << >>
    ELSE JoinLines(SubSeq(lines, 1, Len(lines) - 1))
            \o lines[Len(lines)] \o <<NEWLINE>>

RECURSIVE SumLens(_)
SumLens(lines) ==
    IF lines = << >> THEN 0 ELSE Len(Head(lines)) + 1 + SumLens(Tail(lines))

\* C13: after any sequence of insertChar(), deleteChar() and insertNewline()
\* calls, serialize() returns the concatenation, in line order, of each
\* line's bytes followed by exactly one newline byte, and the length it
\* reports is the sum over the lines of (length + 1).
C13_SerializeJoinsLines ==
    pc = "ops" =>
       /\ editorRowsToString(E.row) = JoinLines(Lines(E))
       /\ editorRowsToStringLen(E.row) = SumLens(Lines(E))
       /\ editorRowsToStringLen(E.row) = Len(editorRowsToString(E.row))

\* an insertChar, an insertNewline, an insertChar and a deleteChar have left
\* the lines "a" and "", serialized as "a", newline, newline
C13_Witness ==
    /\ pc = "ops"
    /\ hist = <<97, ENTER, 98, BACKSPACE>>
    /\ Lines(E) = <<(<<97>>), (<< >>)>>
    /\ editorRowsToString(E.row) = <<97, NEWLINE, NEWLINE>>
    /\ editorRowsToStringLen(E.row) = 3

\* hist is printable characters and Enter keys only
OnlyTyped(h) == \A i \in 1..Len(h) : h[i] \in TypedBytes \cup {ENTER}

\* the typed sequence with each Enter replaced by one newline byte
TypedText(h) == [i \in 1..Len(h) |-> IF h[i] = ENTER THEN NEWLINE ELSE h[i]]

\* C14 as stated: from the empty document with the cursor at (0,0), typing
\* any non-empty sequence of printable characters and Enter keys and then
\* serializing yields the typed sequence, each Enter replaced by one
\* newline, followed by one final newline.
C14_TypedTextThenNewline ==
    (pc = "ops" /\ hist # << >> /\ OnlyTyped(hist))
       => editorRowsToString(E.row) = TypedText(hist) \o <<NEWLINE>>

\* C14 amended: the same for every such sequence that holds at least one
\* printable character; a sequence of Enter keys alone serializes to one
\* newline per Enter, with no further newline.
C14_TypedTextSerialized ==
    (pc = "ops" /\ hist # << >> /\ OnlyTyped(hist))
       => editorRowsToString(E.row) =
             IF \E i \in 1..Len(hist) : hist[i] \in TypedBytes
             THEN TypedText(hist) \o <<NEWLINE>>
             ELSE TypedText(hist)

\* "a", Enter, "b" typed: the document serializes to "a", newline, "b",
\* newline
C14_Witness ==
    /\ pc = "ops"
    /\ hist = <<97, ENTER, 98>>
    /\ editorRowsToString(E.row) = <<97, NEWLINE, 98, NEWLINE>>

\* the bytes of s that are not carriage returns
RECURSIVE WithoutCR(_)
WithoutCR(s) ==
    IF s = << >> THEN << >>
    ELSE IF Head(s) = CR THEN WithoutCR(Tail(s)) ELSE <<Head(s)>> \o WithoutCR(Tail(s))

\* file content with its line endings normalized: no carriage return, and
\* every line, the last one too, ended by one newline
Normalized(bytes) ==
    LET s == WithoutCR(bytes)
    IN  IF bytes = << >> THEN << >>
        ELSE IF s # << >> /\ s[Len(s)] = NEWLINE THEN s
        ELSE s \o <<NEWLINE>>

\* C15: loading a file and then serializing reproduces the original content
\* with normalized line endings: for every file content over bytes that
\* include carriage returns and newlines the output holds no carriage
\* return and otherwise equals the original with each line ended by a
\* single newline, and the dirty counter is zero right after the load.
C15_LoadThenSerialize ==
    pc # "load" =>
       /\ pc = "loaded"
       /\ \A i \in 1..Len(editorRowsToString(E.row)) : editorRowsToString(E.row)[i] # CR
       /\ editorRowsToString(E.row) = Normalized(hist)
       /\ E.dirty = 0

\* C16: for every line that mixes tabs and other bytes and every valid
\* cursor index cx (0 up to the line's length), converting cx to its
\* display column with rowCxToRx and that column back with rowRxToCx
\* gives cx again.
C16_CxRxRoundTrip == pc = "cx" => E.cx = hist[1]

\* the index 2 on the row of a tab and an "a" became display column 9, and
\* that column the index 2 again
C16_Witness ==
    /\ pc = "cx"
    /\ E.row[1].chars = <<TAB, 97>>
    /\ hist = <<2>>
    /\ E.rx = 9
    /\ E.cx = 2

\* q occurs in render at the 0-based column r
OccursAt(render, q, r) ==
    r >= 0 /\ r + Len(q) <= Len(render) /\ SubSeq(render, r + 1, r + Len(q)) = q

Occurs(render, q) == \E r \in 0..Len(render) : OccursAt(render, q, r)

\* the display column of the first occurrence of q in render
FirstCol(render, q) ==
    CHOOSE r \in 0..Len(render) :
       OccursAt(render, q, r) /\ \A s \in 0..(r - 1) : ~OccursAt(render, q, s)

\* the keys that search on from the last match, forward or backward
ForwardKeys == {ARROW_RIGHT, ARROW_DOWN}
BackwardKeys == {ARROW_LEFT, ARROW_UP}

\* the line a search keystroke k starts from (-1: from the top) and the
\* direction it scans in, f being the statics of the callback before it
ScanStart(f, k) == IF k \in ForwardKeys \cup BackwardKeys THEN f.last_match ELSE -1

ScanDir(f, k) == IF ScanStart(f, k) # -1 /\ k \in BackwardKeys THEN -1 ELSE 1

\* the 0-based line scanned i-th (i = 1 .. N), wrapping at both ends
ScanAt(e, f, k, i) == (ScanStart(f, k) + ScanDir(f, k) * i + Len(e.row)) % Len(e.row)

\* some line's render holds q
QueryFound(e, q) == \E y \in 1..Len(e.row) : Occurs(e.row[y].render, q)

\* the first line in scan order whose render holds q
FirstHit(e, f, k, q) ==
    LET i == CHOOSE i \in 1..Len(e.row) :
                /\ Occurs(e.row[ScanAt(e, f, k, i) + 1].render, q)
                /\ \A j \in 1..(i - 1) : ~Occurs(e.row[ScanAt(e, f, k, j) + 1].render, q)
    IN  ScanAt(e, f, k, i)

\* the highlight of every row of e is its classification, but for the cells
\* r .. r+n-1 of line y, which hold HL_MATCH
OnlyMatchCells(e, y, r, n) ==
    \A z \in 1..Len(e.row) :
       LET syntax == editorUpdateSyntax(e.row[z].render)
       IN  e.row[z].hl = [i \in 1..Len(e.row[z].render) |->
                             IF z = y + 1 /\ i > r /\ i <= r + n THEN HL_MATCH
                             ELSE syntax[i]]

\* what a search keystroke k that finds q leaves as g of e
FoundPost(e, f, k, q, g) ==
    LET y == FirstHit(e, f, k, q)
        r == FirstCol(e.row[y + 1].render, q)
    IN  /\ g.cy = y
        /\ g.cx = editorRowRxToCx(e.row[y + 1].chars, r)
        /\ OnlyMatchCells(g, y, r, Len(q))

SearchKeys == Keys \ {ENTER, ESC}

\* a step of FindSpec in which the search prompt has read the key k
FindStepOn(k) == pc = "find" /\ hist' = <<k>>

\* C17: when a search keystroke finds the query, the cursor moves to the
\* first line in scan order whose render contains the query, at the chars
\* index that rowRxToCx gives for the display column r of the first
\* occurrence in that line; exactly the cells r .. r+len(query)-1 of that
\* line's highlight hold the match value and all other highlight cells are
\* as they were before the search.
C17_MatchMovesCursorAndHighlights ==
    [][\A k \in SearchKeys :
          (FindStepOn(k) /\ QueryFound(E, buf')) => FoundPost(E, F, k, buf', E')]_vars

\* "a" has been searched in the lines tab "1a", "aba", tab "1a": the cursor is on
\* line 0 at index 2, display column 9, the one cell that holds the match
\* value
C17_Witness ==
    /\ pc = "find"
    /\ Lines(E) = <<(<<TAB, 49, 97>>), (<<97, 98, 97>>), (<<TAB, 49, 97>>)>>
    /\ buf = <<97>>
    /\ hist = <<97>>
    /\ F.last_match = 0
    /\ E.cy = 0
    /\ E.cx = 2
    /\ E.rx = 9
    /\ E.row[1].hl = <<0, 0, 0, 0, 0, 0, 0, 0, HL_NUMBER, HL_MATCH>>
    /\ E.row[2].hl = <<0, 0, 0>>

\* the 0-based lines of e with a highlight cell that holds HL_MATCH
MatchLines(e) ==
    {y \in 0..(Len(e.row) - 1) :
        \E i \in 1..Len(e.row[y + 1].hl) : e.row[y + 1].hl[i] = HL_MATCH}

\* every line's highlight is the classification of its render
Classified(e) ==
    \A y \in 1..Len(e.row) : e.row[y].hl = editorUpdateSyntax(e.row[y].render)

\* C18: every invocation of the callback first restores the saved highlight
\* of the previously matched line, so at most one line carries match cells
\* during a search session (the one the callback has saved), and once find()
\* has returned, by Enter or Escape, no highlight cell holds the match value
\* and every line's highlight equals its classification from before the
\* search.
C18_MatchHighlightIsTransient ==
    /\ pc = "find" =>
          /\ Cardinality(MatchLines(E)) <= 1
          /\ \A y \in MatchLines(E) : ~F.saved_hl.null /\ F.saved_hl_line = y
          /\ ~F.saved_hl.null =>
                F.saved_hl.hl = editorUpdateSyntax(E.row[F.saved_hl_line + 1].render)
    /\ pc = "edit" => MatchLines(E) = {} /\ Classified(E)

\* Ctrl-F, a key that matched on line 0, a key that matched on line 1 and
\* Enter: the search is over with the cursor on line 1, scrolled to the top
\* of the window, and no highlight is left
C18_Witness ==
    /\ pc = "edit"
    /\ hist = <<ENTER>>
    /\ nkeys = 4
    /\ Lines(E) = <<(<<97, 98, 97>>), (<<TAB, 49, 97>>), (<<97, 98, 97>>)>>
    /\ E.cy = 1
    /\ E.cx = 2
    /\ E.rowoff = 1
    /\ E.row[2].hl = <<0, 0, 0, 0, 0, 0, 0, 0, HL_NUMBER, HL_NORMAL>>

C20_NoMatchChangesNothing ==
    [][\A k \in SearchKeys :
          (FindStepOn(k) /\ ~QueryFound(E, buf'))
             => /\ E'.cx = E.cx
                /\ E'.cy = E.cy
                /\ E'.rowoff = E.rowoff
                /\ E'.coloff = E.coloff
                /\ MatchLines(E') = {}]_vars

\* "b" matched on line 0 at index 1; the second "b" made the query "bb",
\* which no line holds: the cursor is still there and no cell is a match
C20_Witness ==
    /\ pc = "find"
    /\ buf = <<98, 98>>
    /\ hist = <<98>>
    /\ nkeys = 3
    /\ Lines(E) = <<(<<97, 98, 97>>), (<<TAB, 49, 97>>), (<<97, 98, 97>>)>>
    /\ E.cy = 0
    /\ E.cx = 1
    /\ F.last_match = -1
    /\ MatchLines(E) = {}

\* a step of SaveSpec in which editorSave got as far as open(), with io
\* what the system calls did
SaveStepOn(io) == hist'[2] = io

\* the lines and the cursor of f are those of e
SameText(e, f) == Lines(f) = Lines(e) /\ f.cx = e.cx /\ f.cy = e.cy

\* C21: a successful save (open, truncate and write of the full serialized
\* buffer all succeed) sets the dirty counter to 0 and the status message
\* to the number of bytes written, which is the serialized length; the
\* lines and the cursor are unchanged by saving.
C21_SaveSucceeds ==
    [][SaveStepOn("ok")
          => /\ pc' = "edit"
             /\ E'.dirty = 0
             /\ E'.statusmsg = Msg("%d bytes written to disk", SumLens(Lines(E)), << >>)
             /\ clean_text' = JoinLines(Lines(E))
             /\ Len(clean_text') = E'.statusmsg.n
             /\ SameText(E, E')]_vars

\* "ab" and "b", changed and without a name, saved as "a": 5 bytes written
C21_Witness ==
    /\ pc = "edit"
    /\ hist = <<ENTER, "ok">>
    /\ nkeys = 3
    /\ Lines(E) = <<(<<97, 98>>), (<<98>>)>>
    /\ E.filename = <<97>>
    /\ E.dirty = 0
    /\ E.statusmsg.n = 5
    /\ clean_text = <<97, 98, NEWLINE, 98, NEWLINE>>

FailedSaves == SaveOutcomes \ {"ok"}

\* C22: a failed save (open, truncate or write fails, or write writes less
\* than the serialized length) and a save-as prompt cancelled with Escape
\* never terminate the editor: control is back in the main loop, the lines,
\* the cursor and the dirty counter are unchanged, and the status message
\* reports the error, or that the save was aborted.
C22_SaveFailsOrIsAborted ==
    [][/\ (\E io \in FailedSaves : SaveStepOn(io))
             => /\ pc' = "edit"
                /\ SameText(E, E')
                /\ E'.dirty = E.dirty
                /\ clean_text' = clean_text
                /\ E'.statusmsg.fmt = "Can't save! I/O error: %s"
       /\ (pc = "saveas" /\ hist'[1] = ESC)
             => /\ pc' = "edit"
                /\ SameText(E, E')
                /\ E'.dirty = E.dirty
                /\ clean_text' = clean_text
                /\ E'.statusmsg.fmt = "Save aborted"]_vars

\* "ab" and "b", changed, with a file name: Ctrl-S, and write() wrote less
\* than the 5 bytes
C22_Witness ==
    /\ pc = "edit"
    /\ hist = <<CTRL_KEY(115), "short">>
    /\ Lines(E) = <<(<<97, 98>>), (<<98>>)>>
    /\ E.dirty = 3
    /\ clean_text = << >>
    /\ E.statusmsg.fmt = "Can't save! I/O error: %s"

\* the escape sequences of the key table and the key of each
KeyTable ==
    {<< <<ESC, 91, 65>>, ARROW_UP >>, << <<ESC, 91, 66>>, ARROW_DOWN >>,
     << <<ESC, 91, 67>>, ARROW_RIGHT >>, << <<ESC, 91, 68>>, ARROW_LEFT >>,
     << <<ESC, 91, 72>>, HOME_KEY >>, << <<ESC, 91, 70>>, END_KEY >>,
     << <<ESC, 91, 49, 126>>, HOME_KEY >>, << <<ESC, 91, 55, 126>>, HOME_KEY >>,
     << <<ESC, 91, 52, 126>>, END_KEY >>, << <<ESC, 91, 56, 126>>, END_KEY >>,
     << <<ESC, 91, 51, 126>>, DEL_KEY >>, << <<ESC, 91, 53, 126>>, PAGE_UP >>,
     << <<ESC, 91, 54, 126>>, PAGE_DOWN >>}

\* the int k is the byte b as a char holds it
SameByte(k, b) == k \in -128..255 /\ (k + 256) % 256 = b /\ (b < 128 => k = b)

\* editorReadKey has returned
Returned == pc = "key"

C24_EscOHomeEnd ==
    Returned =>
        /\ hist = <<ESC, 79, 72>> => readkey = HOME_KEY
        /\ hist = <<ESC, 79, 70>> => readkey = END_KEY

\* the escape sequences editorReadKey is meant to recognize
Recognized == {p[1] : p \in KeyTable} \cup {<<ESC, 79, 72>>, <<ESC, 79, 70>>}

\* C25: after ESC, editorReadKey returns ESC when one of the reads that
\* follow times out or when the bytes read are no recognized sequence.
C25_EscapeOtherwise ==
    Returned /\ hist[1] = ESC /\ hist \notin Recognized => readkey = ESC

\* the key is a non-control byte under 128
IsText(k) == k >= 32 /\ k < 127

\* the keys with a case of their own in editorProcessKeypress
FixedCommands ==
    {ENTER, CTRL_KEY(113), CTRL_KEY(115), CTRL_KEY(102), HOME_KEY, END_KEY,
     BACKSPACE, CTRL_KEY(104), DEL_KEY, PAGE_UP, PAGE_DOWN, CTRL_KEY(108), ESC}
       \cup ArrowKeys

\* no line of the document holds a newline byte
NoNewlineInLines ==
    \A y \in 1..Len(E.row) : \A i \in 1..Len(E.row[y].chars) : E.row[y].chars[i] # NEWLINE

\* C26: editorProcessKeypress inserts the key at the cursor when it is a
\* non-control byte under 128; on every other key it runs one of the fixed
\* commands or leaves the lines as they are; so no line ever holds a
\* newline byte.
C26_InsertsExactlyText ==
    /\ [](pc = "ops" => NoNewlineInLines)
    /\ [][pc' = "ops" /\ hist' # hist =>
             LET k == hist'[Len(hist')]
             IN  IF IsText(k) THEN InsertCharPost(E, E', k)
                 ELSE k \in FixedCommands \/ Lines(E') = Lines(E)]_vars

\* C27: the refresh at the time t' draws the status message, set at the
\* time t, exactly when the message is not empty and t' - t < 5, whatever
\* keys were read in between; t is the time of the last
\* editorSetStatusMessage.
C27_MessageShownFiveSeconds ==
    Waiting =>
        /\ hist[1] <= hist[2]
        /\ editorDrawMessageBar(E, hist[2])
              <=> (E.statusmsg.fmt # "" /\ hist[2] - hist[1] < 5)

\* the help message of the start is 5 seconds old at the refresh after the
\* second "a"
C27_Witness ==
    /\ pc = "edit"
    /\ E.statusmsg = HelpMsg
    /\ Lines(E) = << <<97, 97>> >>
    /\ hist = <<0, 5>>
    /\ now = 6
    /\ ~editorDrawMessageBar(E, hist[2])

\* C28: editorInsertRow with at < 0 or at > numrows, and editorDelRow with
\* at < 0 or at >= numrows, return with the lines, numrows and dirty as they
\* were and without an access outside rows 0..numrows-1.
C28_OutOfRangeRowOpsAreNoOps ==
    [][nkeys' # nkeys =>
          LET at == hist'[2]
              n == Len(E.row)
          IN  (\/ hist'[1] = "editorInsertRow" /\ (at < 0 \/ at > n)
               \/ hist'[1] = "editorDelRow" /\ (at < 0 \/ at >= n))
                 => pc' = "rowops" /\ E' = E]_vars

\* n spaces
Spaces(n) == [i \in 1..n |-> 32]

\* the reference expansion: each tab is replaced by the spaces up to the
\* next multiple of KILO_TAB_STOP, at least one, every other byte copied
RECURSIVE Expanded(_)
Expanded(chars) ==
    IF chars = << >> THEN << >>
    ELSE LET before == Expanded(SubSeq(chars, 1, Len(chars) - 1))
             c == chars[Len(chars)]
         IN  IF c = TAB
             THEN before \o Spaces(KILO_TAB_STOP - (Len(before) % KILO_TAB_STOP))
             ELSE Append(before, c)

\* the row r is rendered as the reference expansion has it
RenderedByReference(r) ==
    /\ r.render = Expanded(r.chars)
    /\ \A i \in 1..Len(r.render) : r.render[i] # TAB
    /\ Len(r.render) = editorRowCxToRx(r.chars, Len(r.chars))
    /\ \A cx \in 0..Len(r.chars) :
          editorRowCxToRx(r.chars, cx) = Len(Expanded(SubSeq(r.chars, 1, cx)))

\* C29: for every line content editorUpdateRow completes with a render
\* that is the reference tab expansion of the line and holds no tab, with
\* rsize = editorRowCxToRx(row, size), and editorRowCxToRx(row, cx) is the
\* length of the reference expansion of the first cx bytes.
C29_RenderIsTabExpansion ==
    pc # "render" =>
        /\ pc = "rendered"
        /\ Len(E.row) = 1
        /\ E.row[1].chars = hist
        /\ RenderedByReference(E.row[1])

\* the same on the rows without a tab and on those with a tab in which the
\* bytes written past render did no harm
RenderWhereDefined ==
    pc \in {"rendered", "undefined"} =>
        Len(E.row) = 1 /\ E.row[1].chars = hist /\ RenderedByReference(E.row[1])

\* whitespace, the null byte and , . ( ) + - / * = ~ % < > [ ] ;
SeparatorSet ==
    {32, 9, 10, 11, 12, 13, 0, 44, 46, 40, 41, 43, 45, 47, 42, 61, 126, 37, 60, 62,
     91, 93, 59}

\* byte i (from 1) of the render r with the classes hl is to be a number
NumberAt(r, hl, i) ==
    \/ /\ r[i] \in 48..57
       /\ \/ i = 1
          \/ r[i - 1] \in SeparatorSet /\ hl[i - 1] # HL_NUMBER
          \/ hl[i - 1] = HL_NUMBER
    \/ r[i] = DOT /\ i > 1 /\ hl[i - 1] = HL_NUMBER

\* C30: editorUpdateSyntax gives display byte i the class number exactly
\* when it is a digit at the line start, after a separator not classified
\* number or after a byte classified number, or a '.' after a byte
\* classified number, and the class normal otherwise; the separators are
\* whitespace, the null byte and , . ( ) + - / * = ~ % < > [ ] ;
C30_NumberClassification ==
    /\ \A c \in 0..127 : is_separator(c) <=> c \in SeparatorSet
    /\ pc = "rendered" =>
          LET r == E.row[1].render
              hl == E.row[1].hl
          IN  /\ r = hist
              /\ Len(hl) = Len(r)
              /\ \A i \in 1..Len(r) :
                    hl[i] = IF NumberAt(r, hl, i) THEN HL_NUMBER ELSE HL_NORMAL

\* "1.1 1": the '.' after a number is a number and the digit after it too;
\* the digit after the space is a number
C30_Witness ==
    /\ pc = "rendered"
    /\ hist = <<49, DOT, 49, 32, 49>>
    /\ E.row[1].hl = <<HL_NUMBER, HL_NUMBER, HL_NUMBER, HL_NORMAL, HL_NUMBER>>

\* the row r is drawn from a render and a highlight array built from its
\* current chars
Fresh(r) ==
    /\ r.render = Expanded(r.chars)
    /\ Len(r.hl) = Len(r.render)
    /\ r.hl = editorUpdateSyntax(r.render)

\* C31: at every refresh outside a search session every line's render is
\* the tab expansion of its chars, and its hl has the length of the render
\* and is the classification of the render.
C31_RenderAndHighlightFresh ==
    (Waiting /\ pc # "find") => \A y \in 1..Len(E.row) : Fresh(E.row[y])

\* the refresh after five keys that have made the lines "a" and "ab" and
\* left the cursor inside the second
C31_Witness ==
    /\ pc = "edit"
    /\ nkeys = MaxKeys
    /\ E.dirty # 0
    /\ Len(E.row) = 2
    /\ E.row[1].chars = <<97>>
    /\ E.row[2].chars = <<97, 98>>
    /\ E.cy = 1
    /\ E.cx = 1
    /\ Fresh(E.row[1])
    /\ Fresh(E.row[2])

\* the 0-based lines of e whose render holds q
LinesWith(e, q) == {y \in 0..(Len(e.row) - 1) : Occurs(e.row[y + 1].render, q)}

Least(S) == CHOOSE y \in S : \A z \in S : y <= z
Greatest(S) == CHOOSE y \in S : \A z \in S : y >= z

\* the next line of S after m, wrapping from the last line to line 0
NextAfter(S, m) ==
    IF \E y \in S : y > m THEN Least({y \in S : y > m}) ELSE Least(S)

\* the line of S before m, wrapping from line 0 to the last line
LastBefore(S, m) ==
    IF \E y \in S : y < m THEN Greatest({y \in S : y < m}) ELSE Greatest(S)

\* C32: in a search session with the last match on line m, ArrowRight and
\* ArrowDown put the cursor on the next line after m whose render holds the
\* query, wrapping from the last line to line 0, ArrowLeft and ArrowUp on
\* the previous one, wrapping from line 0 to the last line; the cursor is
\* back on m when no other line holds the query.
C32_ArrowsStepThroughMatches ==
    [][\A k \in ForwardKeys \cup BackwardKeys :
          (FindStepOn(k) /\ F.last_match >= 0) =>
             LET m == F.last_match
                 S == LinesWith(E, buf)
                 to == IF k \in ForwardKeys THEN NextAfter(S, m) ELSE LastBefore(S, m)
             IN  /\ buf' = buf
                 /\ m \in S
                 /\ E'.cy = to
                 /\ F'.last_match = to
                 /\ E'.cx = editorRowRxToCx(E.row[to + 1].chars,
                                            FirstCol(E.row[to + 1].render, buf))
                 /\ S = {m} => E'.cy = m]_vars

\* "b" matched on line 0 of "aba", tab "1a", "aba"; ArrowDown went to line
\* 2 and ArrowRight, wrapping, back to line 0
C32_Witness ==
    /\ pc = "find"
    /\ Lines(E) = <<(<<97, 98, 97>>), (<<TAB, 49, 97>>), (<<97, 98, 97>>)>>
    /\ buf = <<98>>
    /\ hist = <<ARROW_RIGHT>>
    /\ nkeys = 4
    /\ F.last_match = 0
    /\ E.cy = 0
    /\ E.cx = 1
    /\ E.rowoff = 0

\* the keys of the search prompt that are neither Enter, Escape nor an arrow
FreshKeys == SearchKeys \ (ForwardKeys \cup BackwardKeys)

\* C33 as stated: in a search session any key other than Enter, Escape and
\* the arrows starts a forward search at the cursor, so the cursor lands on
\* the first line at or after its own line (or, at the latest, after it),
\* wrapping, whose render holds the query.
C33_FreshSearchFromCursor ==
    [][\A k \in FreshKeys :
          (FindStepOn(k) /\ LinesWith(E, buf') # {}) =>
             E'.cy \in {NextAfter(LinesWith(E, buf'), E.cy - 1),
                        NextAfter(LinesWith(E, buf'), E.cy)}]_vars

\* C33 (amended): in a search session any key other than Enter, Escape and
\* the arrows starts a forward search at line 0: the cursor lands on the
\* first line of the document whose render holds the query, at its first
\* occurrence, whatever the cursor position and the previous match were.
C33_FreshSearchFromTop ==
    [][\A k \in FreshKeys :
          (FindStepOn(k) /\ LinesWith(E, buf') # {}) =>
             LET top == Least(LinesWith(E, buf'))
             IN  /\ E'.cy = top
                 /\ E'.cx = editorRowRxToCx(E.row[top + 1].chars,
                                            FirstCol(E.row[top + 1].render, buf'))
                 /\ F'.last_match = top
                 /\ F'.direction = 1]_vars

\* in "aba", tab "1a", "aba" the query "a" was stepped to a later line by
\* an arrow; typing "b" then put the cursor back on line 0
C33_Witness ==
    /\ pc = "find"
    /\ Lines(E) = <<(<<97, 98, 97>>), (<<TAB, 49, 97>>), (<<97, 98, 97>>)>>
    /\ buf = <<97, 98>>
    /\ hist = <<98>>
    /\ nkeys = 4
    /\ saved.cy = 2
    /\ F.last_match = 0
    /\ F.direction = 1
    /\ E.cy = 0
    /\ E.cx = 0

\* the search state a session starts from: no last match, direction
\* forward, no saved highlight
FreshSearch(f) == f.last_match = -1 /\ f.direction = 1 /\ f.saved_hl.null

\* C34: when a search session has ended, by Enter or by Escape, the search
\* state is reset, so every session starts from the same search state
\* whatever the sessions before it did.
C34_SearchStateReset == pc = "edit" => FreshSearch(F)

\* a session that matched on line 2 of the document has ended by Enter and
\* the next one has not begun
C34_Witness ==
    /\ pc = "edit"
    /\ hist = <<ENTER>>
    /\ F.saved_hl_line = 2
    /\ E.cy = 2
    /\ FreshSearch(F)

\* the lines, the cursor and the viewport of e and g are the same
SameView(e, g) ==
    /\ Lines(g) = Lines(e)
    /\ g.cx = e.cx /\ g.cy = e.cy
    /\ g.rowoff = e.rowoff /\ g.coloff = e.coloff

\* C35 as stated: Enter in the search prompt with nothing typed ends the
\* search and returns to the main loop with the lines, the cursor and the
\* viewport unchanged.
C35_EmptyQueryEndsSearch ==
    [][(FindStepOn(ENTER) /\ buf = << >>) => (pc' = "edit" /\ SameView(E, E'))]_vars

\* C35 (amended): Enter in the search prompt with nothing typed is ignored:
\* the prompt stays open on the empty query, with the lines, the cursor and
\* the viewport unchanged.
C35_EmptyQueryKeepsPrompt ==
    [][(FindStepOn(ENTER) /\ buf = << >>) =>
          /\ pc' = "find"
          /\ buf' = << >>
          /\ SameView(E, E')
          /\ saved' = saved
          /\ FreshSearch(F')]_vars

\* Enter was pressed on the empty query that typing "a" and Backspace had
\* left, with the cursor where the match of the empty query had put it
C35_Witness ==
    /\ pc = "find"
    /\ hist = <<ENTER>>
    /\ buf = << >>
    /\ nkeys = 4
    /\ Len(E.row) = 3
    /\ saved.cy = 2
    /\ E.cy = 0

\* C36: for every line content, lines with tabs included, the capacity that
\* editorUpdateRow allocates for render is at least rsize + 1, so building
\* the render of the line never writes past the allocation.
C36_RenderFitsCapacity ==
    pc # "render" =>
        /\ pc = "rendered"
        /\ RenderCapacity(hist) >= Len(E.row[1].render) + 1

\* C37: in every state reached through the key dispatcher the dirty counter
\* is not negative: the row deletion of a line merge comes after an append
\* that has incremented the counter.
C37_DirtyNeverNegative == Waiting => E.dirty >= 0

\* the file "a", "b" was loaded and its two lines were merged by one key:
\* the append and the row deletion have left the counter at 0
C37_Witness ==
    /\ pc = "edit"
    /\ clean_text = <<97, NEWLINE, 98, NEWLINE>>
    /\ Lines(E) = <<(<<97, 98>>)>>
    /\ E.cy = 0
    /\ E.cx = 1
    /\ E.dirty = 0

\* C38: once the document holds a line no key command empties it: from a
\* state with numrows >= 1 every key leads to a state with numrows >= 1.
C38_NeverEmptyAgain ==
    [][(Waiting /\ Len(E.row) >= 1 /\ Waiting') => Len(E'.row) >= 1]_vars

\* the file "a", "b" was loaded and five Delete and Backspace keys have
\* removed both bytes and merged the lines: one empty line is left and the
\* last Delete has moved the cursor past it
C38_Witness ==
    /\ pc = "edit"
    /\ clean_text = <<97, NEWLINE, 98, NEWLINE>>
    /\ nkeys = MaxKeys
    /\ Lines(E) = <<(<< >>)>>
    /\ E.cy = 1
    /\ E.cx = 0

\* a step of editorInsertNewline from a defined state to a defined state
NewlineStep == pc = "ops" /\ pc' = "ops" /\ hist' = Append(hist, ENTER)

\* editorDelChar on g gives the lines and the cursor of e
DelCharRestores(e, g) ==
    /\ ~editorDelCharUB(g)
    /\ Lines(editorDelChar(g)) = Lines(e)
    /\ editorDelChar(g).cx = e.cx
    /\ editorDelChar(g).cy = e.cy

\* C39 as stated: from every reachable cursor position, the one past the
\* last line included, editorInsertNewline followed at once by editorDelChar
\* gives back the lines and the cursor (cy, cx).
C39_NewlineThenDeleteRestores ==
    [][NewlineStep => DelCharRestores(E, E')]_vars

\* C39 (amended): from every reachable cursor position on a line of the
\* document, editorInsertNewline followed at once by editorDelChar gives
\* back the lines and the cursor; one past the last line the pair leaves one
\* more, empty, line at the end and the cursor past it.
C39_NewlineThenDeleteOnALine ==
    [][NewlineStep =>
          IF E.cy < Len(E.row)
          THEN DelCharRestores(E, E')
          ELSE /\ ~editorDelCharUB(E')
               /\ Lines(editorDelChar(E')) = Append(Lines(E), << >>)
               /\ editorDelChar(E').cy = E.cy + 1
               /\ editorDelChar(E').cx = 0]_vars

\* "ab" was typed, the cursor was moved between the two bytes and
\* editorInsertNewline has split the line there
C39_Witness ==
    /\ pc = "ops"
    /\ hist = <<97, 98, ARROW_LEFT, ENTER>>
    /\ Lines(E) = <<(<<97>>), (<<98>>)>>
    /\ E.cy = 1
    /\ E.cx = 0
    /\ Lines(editorDelChar(E)) = <<(<<97, 98>>)>>

\* a DEL_KEY step of the dispatcher from a defined state
DelKeyStep == pc = "ops" /\ hist' = Append(hist, DEL_KEY)

\* the cursor of g is the cursor of e
SameCursor(e, g) == g.cx = e.cx /\ g.cy = e.cy

\* s without its element i (from 1)
Without(s, i) == SubSeq(s, 1, i - 1) \o SubSeq(s, i + 1, Len(s))

\* the lines l with line n (from 1) joined with the one after it
Joined(l, n) == Without([l EXCEPT ![n] = l[n] \o l[n + 1]], n + 1)

\* DEL_KEY with the cursor of e before the end of the last line: on a byte
\* the byte is removed, at the end of a line the next line is joined onto it,
\* and the cursor stays
DelKeyInside(e, g) ==
    /\ SameCursor(e, g)
    /\ IF e.cx < Len(e.row[e.cy + 1].chars)
       THEN Lines(g) = [Lines(e) EXCEPT ![e.cy + 1] = Without(Lines(e)[e.cy + 1], e.cx + 1)]
       ELSE Lines(g) = Joined(Lines(e), e.cy + 1)

AtEndOfLastLine(e) ==
    /\ Len(e.row) > 0
    /\ e.cy = Len(e.row) - 1
    /\ e.cx = Len(e.row[e.cy + 1].chars)

\* C40 as stated: the Delete key never changes the cursor: on a byte it
\* removes that byte, at the end of a line that is not the last it joins the
\* next line onto it, and at the end of the last line or one past the last
\* line it changes neither the lines nor the cursor.
C40_DeleteKeepsCursor ==
    [][DelKeyStep =>
          /\ pc' = "ops"
          /\ IF E.cy < Len(E.row) /\ ~AtEndOfLastLine(E)
             THEN DelKeyInside(E, E')
             ELSE Lines(E') = Lines(E) /\ SameCursor(E, E')]_vars

\* C40 (amended): the Delete key on a byte removes that byte and at the end
\* of a line that is not the last joins the next line onto it, the cursor
\* staying where it is; at the end of the last line it leaves the lines as
\* they are and moves the cursor one past the last line, to column 0; one
\* past the last line it changes neither the lines nor the cursor.
C40_DeleteMovesOnlyAtEnd ==
    [][DelKeyStep =>
          /\ pc' = "ops"
          /\ IF E.cy < Len(E.row) /\ ~AtEndOfLastLine(E)
             THEN DelKeyInside(E, E')
             ELSE /\ Lines(E') = Lines(E)
                  /\ IF AtEndOfLastLine(E)
                     THEN E'.cy = Len(E.row) /\ E'.cx = 0
                     ELSE E.cy = Len(E.row) /\ SameCursor(E, E')]_vars

\* "a" and Enter were typed and ArrowLeft went back to the end of the first
\* line: Delete has joined the empty second line onto it and left the
\* cursor at (0, 1)
C40_Witness ==
    /\ pc = "ops"
    /\ hist = <<97, ENTER, ARROW_LEFT, DEL_KEY>>
    /\ Lines(E) = <<(<<97>>)>>
    /\ E.cy = 0
    /\ E.cx = 1

====
